---- MODULE Spec2Model ----
(***************************************************************************)
(* A model of the route optimizer's response cache (route_optimizer/       *)
(* cache.py), of the Google Maps client that uses it (route_optimizer/     *)
(* api.py) and of the cache-key computation.                               *)
(*                                                                         *)
(* Python values are tagged records (PyNone, PyInt, PyStr, PyList, PyDict);*)
(* the text of a cache file is modelled by the JSON document it holds      *)
(* (JNull, JNum, JStr, JArr, JObj) or, when it is no JSON document, by     *)
(* JBad(text).  json_dump and json_load convert between the two.           *)
(* Time is counted in days.  An exception is the name of its Python class, *)
(* "none" when the call returned normally.                                 *)
(***************************************************************************)
EXTENDS Integers, Sequences, FiniteSets, TLC

VARIABLES
    cache_dir,            \* TRUE when the directory CACHE_DIR exists
    files,                \* the files of CACHE_DIR: cache key -> content
    now,                  \* datetime.now(), in days
    GOOGLE_MAPS_API_KEY,  \* the module global of api.py (NoCredential when unset)
    call,                 \* the last call made: its arguments and its outcome
    stored_by,            \* history: cache key -> the fetch that wrote the file
    saver,                \* a process inside save_to_cache (SpecConc)
    getter                \* a process inside get_from_cache (SpecConc)

vars == <<cache_dir, files, now, GOOGLE_MAPS_API_KEY, call, stored_by, saver, getter>>

(***************************************************************************)
(* Bounds of the model and constants of the program.                       *)
(***************************************************************************)
CACHE_EXPIRY_DAYS == 30

MaxNow == 31

\* The time that passes between two calls: exactly the TTL, or one day more.
Elapsed == {CACHE_EXPIRY_DAYS, CACHE_EXPIRY_DAYS + 1}

(***************************************************************************)
(* Python values.                                                          *)
(***************************************************************************)
PyNone == [py |-> "None"]

PyInt(n) == [py |-> "int", n |-> n]

PyStr(s) == [py |-> "str", s |-> s]

PyList(items) == [py |-> "list", items |-> items]

\* A dict keeps its insertion order: a sequence of <<key, value>>.
PyDict(pairs) == [py |-> "dict", pairs |-> pairs]

HasKey(d, k) == \E i \in 1..Len(d.pairs) : d.pairs[i][1] = k

\* d[k] of a dict that has the key k.
GetItem(d, k) == d.pairs[CHOOSE i \in 1..Len(d.pairs) : d.pairs[i][1] = k][2]

(***************************************************************************)
(* JSON documents, and text that is no JSON document.                      *)
(***************************************************************************)
JNull == [json |-> "null"]

JNum(n) == [json |-> "number", n |-> n]

JStr(s) == [json |-> "string", s |-> s]

JArr(items) == [json |-> "array", items |-> items]

JObj(members) == [json |-> "object", members |-> members]

JBad(text) == [json |-> "invalid", text |-> text]

\* The content of a path that names no file.
NoFile == [json |-> "nofile"]

RECURSIVE json_dump(_)
\* json.dump(v, f): the document written for the Python value v.  A dict is
\* written in insertion order (save_to_cache passes no sort_keys).
json_dump(v) ==
    CASE v.py = "None" -> JNull
      [] v.py = "int"  -> JNum(v.n)
      [] v.py = "str"  -> JStr(v.s)
      [] v.py = "list" -> JArr([i \in 1..Len(v.items) |-> json_dump(v.items[i])])
      [] v.py = "dict" ->
            JObj([i \in 1..Len(v.pairs) |->
                    <<v.pairs[i][1], json_dump(v.pairs[i][2])>>])

RECURSIVE json_load(_)
\* json.load(f) of a file that holds a JSON document (JBad raises
\* json.JSONDecodeError instead, see get_from_cache).
json_load(doc) ==
    CASE doc.json = "null"   -> PyNone
      [] doc.json = "number" -> PyInt(doc.n)
      [] doc.json = "string" -> PyStr(doc.s)
      [] doc.json = "array"  ->
            PyList([i \in 1..Len(doc.items) |-> json_load(doc.items[i])])
      [] doc.json = "object" ->
            PyDict([i \in 1..Len(doc.members) |->
                      <<doc.members[i][1], json_load(doc.members[i][2])>>])

(***************************************************************************)
(* datetime: isoformat and fromisoformat.                                  *)
(***************************************************************************)
\* The text datetime.isoformat writes for each day (@@ makes TLC tabulate
\* the function once).
IsoText == [t \in 0..MaxNow |-> "day " \o ToString(t)] @@ << >>

isoformat(t) == IsoText[t]

\* datetime.fromisoformat(s) raises ValueError when s is no ISO date.
IsIsoformat(s) == \E t \in 0..MaxNow : IsoText[t] = s

fromisoformat(s) == CHOOSE t \in 0..MaxNow : IsoText[t] = s

(***************************************************************************)
(* cache.py                                                                *)
(***************************************************************************)
Content(fs, k) == IF k \in DOMAIN fs THEN fs[k] ELSE NoFile

\* A variant that empties the cache directory.
UnlinkAll(fs, k) == << >>

\* cache_file.unlink()
Unlink(fs, k) == [x \in DOMAIN fs \ {k} |-> fs[x]]

\* A variant that opens the file with 'a': what is written follows what the
\* file held, and two documents in a row are no JSON document.
AppendFile(fs, k, doc) ==
    [x \in DOMAIN fs \cup {k} |->
        IF x # k THEN fs[x]
        ELSE IF k \in DOMAIN fs THEN JBad("two documents") ELSE doc]

\* open(cache_file, 'w') ... json.dump(...): the file holds exactly doc.
WriteFile(fs, k, doc) == [x \in DOMAIN fs \cup {k} |-> IF x = k THEN doc ELSE fs[x]]

\* init_cache(): CACHE_DIR.mkdir(exist_ok=True)
init_cache(dir) == TRUE

\* What one call leaves behind: the exception raised ("none": it returned),
\* the value returned and the files of the cache directory.
Outcome(exc, ret, fs) == [exc |-> exc, ret |-> ret, files |-> fs]

\* Two variants of the comparison: one expires an entry when it is exactly
\* CACHE_EXPIRY_DAYS old, the other keeps it a day longer.
ExpiredAtTTL(t, cached_time) == t >= cached_time + CACHE_EXPIRY_DAYS

ExpiredADayLate(t, cached_time) == t > cached_time + CACHE_EXPIRY_DAYS + 1

\* datetime.now() > expiry_time, lines 58-60
Expired(t, cached_time) == t > cached_time + CACHE_EXPIRY_DAYS

get_from_cache(fs, dir, t, cache_key) ==
    LET doc == Content(fs, cache_key)
        Invalid == Outcome("none", PyNone, Unlink(fs, cache_key))
    IN  IF ~dir \/ doc = NoFile THEN Outcome("none", PyNone, fs)
        ELSE IF doc.json = "invalid" THEN Invalid          \* json.JSONDecodeError
        ELSE LET cached_data == json_load(doc)
             IN  IF cached_data.py # "dict"
                   THEN Outcome("TypeError", PyNone, fs)   \* cached_data['timestamp']
                 ELSE IF ~HasKey(cached_data, "timestamp") THEN Invalid   \* KeyError
                 ELSE LET stamp == GetItem(cached_data, "timestamp")
                      IN  IF stamp.py # "str"
                            THEN Outcome("TypeError", PyNone, fs)   \* fromisoformat
                          ELSE IF ~IsIsoformat(stamp.s) THEN Invalid    \* ValueError
                          ELSE LET cached_time == fromisoformat(stamp.s)
                               IN  IF Expired(t, cached_time)
                                     THEN Outcome("none", PyNone, Unlink(fs, cache_key))
                                   ELSE IF ~HasKey(cached_data, "data")
                                     THEN Invalid                       \* KeyError
                                   ELSE Outcome("none", GetItem(cached_data, "data"), fs)

CacheEntry(t, data) ==
    PyDict(<< <<"timestamp", PyStr(isoformat(t))>>, <<"data", data>> >>)

save_to_cache(fs, dir, t, cache_key, data) ==
    IF ~dir THEN Outcome("FileNotFoundError", PyNone, fs)
    ELSE Outcome("none", PyNone, WriteFile(fs, cache_key, json_dump(CacheEntry(t, data))))

(***************************************************************************)
(* generate_cache_key: json.dumps(params, sort_keys=True), then MD5.       *)
(***************************************************************************)
\* The field names a parameter map may hold, in the order sort_keys puts
\* them (the order of str).
SortedFields == <<"destination", "key", "mode", "origin", "waypoints">>

\* A variant without sort_keys: the pairs in insertion order.
InsertionOrder(d) == d.pairs

\* sorted(params.items()): the pairs of d by ascending key.
SortKeys(d) ==
    LET present == SelectSeq(SortedFields, LAMBDA f : HasKey(d, f))
    IN  [i \in 1..Len(present) |-> <<present[i], GetItem(d, present[i])>>]

RECURSIVE JoinStr(_, _)
\* sep.join(strs)
JoinStr(strs, sep) ==
    IF Len(strs) = 0 THEN ""
    ELSE IF Len(strs) = 1 THEN strs[1]
    ELSE strs[1] \o sep \o JoinStr(Tail(strs), sep)

\* The text json.dumps writes for a dict of strings whose pairs are given in
\* the order they are written.  The addresses of the model hold no character
\* that json.dumps escapes.
DumpsPairs(pairs) ==
    "{" \o JoinStr([i \in 1..Len(pairs) |->
                      "\"" \o pairs[i][1] \o "\": \"" \o pairs[i][2].s \o "\""], ", ")
        \o "}"

json_dumps_sort_keys(params) == DumpsPairs(SortKeys(params))

\* hashlib.md5(text).hexdigest(): the digest is taken to be free of collisions,
\* so it is the text itself under a tag.
md5_hexdigest(text) == "md5(" \o text \o ")"

generate_cache_key(params) == md5_hexdigest(json_dumps_sort_keys(params))

(***************************************************************************)
(* api.py: get_route_with_waypoints.                                       *)
(***************************************************************************)
NoCredential == "None"

\* A variant that takes every credential, a missing one too, for configured.
AlwaysConfigured(credential) == TRUE

\* if not GOOGLE_MAPS_API_KEY: None and the empty string are falsy
Configured(credential) == credential # NoCredential /\ credential # ""

\* A variant that leaves the optimize flag out of the parameter.
WaypointsJoined(waypoints, optimize) == JoinStr(waypoints, "|")

\* waypoints_param, lines 39-41
WaypointsParam(waypoints, optimize) ==
    IF optimize THEN "optimize:true|" \o JoinStr(waypoints, "|")
    ELSE JoinStr(waypoints, "|")

\* A variant that puts the API key among the cached parameters, as it is
\* among the request's.
CacheParamsWithKey(origin, waypoints, optimize) ==
    PyDict(<< <<"origin", PyStr(origin)>>,
              <<"destination", PyStr(waypoints[Len(waypoints)])>>,
              <<"waypoints", PyStr(WaypointsParam(waypoints, optimize))>>,
              <<"mode", PyStr("driving")>>,
              <<"key", PyStr(GOOGLE_MAPS_API_KEY)>> >>)

\* cache_params, lines 44-49 (waypoints is not empty)
CacheParams(origin, waypoints, optimize) ==
    PyDict(<< <<"origin", PyStr(origin)>>,
              <<"destination", PyStr(waypoints[Len(waypoints)])>>,
              <<"waypoints", PyStr(WaypointsParam(waypoints, optimize))>>,
              <<"mode", PyStr("driving")>> >>)

\* The origins and the stop lists after the origin that the calls of the
\* model are made with.  Both stop lists are joined to the same waypoints
\* parameter, "a|a|b".
Origins == {"o"}

WaypointLists == { <<"a|a", "b">>, <<"a", "a", "b">> }

\* cache_key, line 50, tabulated for the requests of the model.
KeyOf ==
    [q \in Origins \X WaypointLists \X BOOLEAN |->
        generate_cache_key(CacheParams(q[1], q[2], q[3]))] @@ << >>

CacheKey(origin, waypoints, optimize) ==
    IF <<origin, waypoints, optimize>> \in DOMAIN KeyOf
      THEN KeyOf[<<origin, waypoints, optimize>>]
      ELSE generate_cache_key(CacheParams(origin, waypoints, optimize))

\* Whether the call asks the provider: the lookup returned None.
AsksProvider(fs, dir, t, origin, waypoints, optimize) ==
    LET cached == get_from_cache(fs, dir, t, CacheKey(origin, waypoints, optimize))
    IN  cached.exc = "none" /\ cached.ret = PyNone

\* A variant that takes the first leg for the whole route.
FirstLeg(legs, f) == IF Len(legs) = 0 THEN 0 ELSE legs[1][f]

RECURSIVE SumOf(_, _)
\* total_distance_m, total_duration_s, lines 74-79: the total of field f over
\* the legs.
SumOf(legs, f) == IF Len(legs) = 0 THEN 0 ELSE legs[1][f] + SumOf(Tail(legs), f)

\* seq[idx] of Python: a negative index counts from the end.
InRange(seq, idx) == -Len(seq) <= idx /\ idx < Len(seq)

PyIndex(seq, idx) == IF idx >= 0 THEN seq[idx + 1] ELSE seq[Len(seq) + idx + 1]

\* waypoint_order, lines 82-84: None unless asked for and in the response.
WaypointOrder(data, optimize) ==
    IF optimize /\ data.has_waypoint_order
      THEN PyList([i \in 1..Len(data.waypoint_order) |-> PyInt(data.waypoint_order[i])])
      ELSE PyNone

\* if waypoint_order: a list that is not empty
Truthy(v) == v.py = "list" /\ Len(v.items) > 0

\* route_addresses, lines 87-94, when no index is out of range.
RouteAddresses(origin, waypoints, waypoint_order) ==
    IF Truthy(waypoint_order)
      THEN <<origin>> \o [i \in 1..Len(waypoint_order.items) |->
                             PyIndex(waypoints, waypoint_order.items[i].n)]
      ELSE <<origin>> \o waypoints

\* result, lines 96-101
RouteRecord(addresses, distance_m, duration_s, waypoint_order) ==
    PyDict(<< <<"addresses", PyList([i \in 1..Len(addresses) |-> PyStr(addresses[i])])>>,
              <<"distance_m", PyInt(distance_m)>>,
              <<"duration_s", PyInt(duration_s)>>,
              <<"waypoint_order", waypoint_order>> >>)

\* The ValueError of lines 109-137: the status, the addresses that failed
\* geocoding (position, address, geocoder status), the input addresses listed
\* when the response holds no geocoded_waypoints, and the API's message.
NoError == [kind |-> "none"]

ConfigurationError == [kind |-> "configuration"]

\* An entry of geocoded_waypoints is modelled by its geocoder_status, or by
\* NoGeocoderStatus when it has none.
NoGeocoderStatus == "(no geocoder_status)"

\* A variant that takes an entry without a status for a good one.
StatusOrOk(waypoint) == IF waypoint = NoGeocoderStatus THEN "OK" ELSE waypoint

\* waypoint.get('geocoder_status', 'UNKNOWN'), line 119
GeocoderStatus(waypoint) == IF waypoint = NoGeocoderStatus THEN "UNKNOWN" ELSE waypoint

\* failed_addresses, lines 113-122
FailedAddresses(data, all_addresses) ==
    LET idx == SelectSeq([i \in 1..Len(data.geocoded_waypoints) |-> i],
                         LAMBDA i : i <= Len(all_addresses)
                                    /\ GeocoderStatus(data.geocoded_waypoints[i]) # "OK")
    IN  [j \in 1..Len(idx) |->
           <<idx[j], all_addresses[idx[j]],
             GeocoderStatus(data.geocoded_waypoints[idx[j]])>>]

ProviderError(data, origin, waypoints) ==
    LET geocoded == data.has_geocoded_waypoints /\ Len(data.geocoded_waypoints) > 0
    IN  [kind |-> "provider",
         status |-> data.status,
         failed_addresses |->
            IF geocoded THEN FailedAddresses(data, <<origin>> \o waypoints) ELSE <<>>,
         input_addresses |-> IF geocoded THEN <<>> ELSE <<origin>> \o waypoints,
         api_message |-> IF data.has_error_message THEN data.error_message ELSE ""]

\* A variant that takes an empty result for a success.
StatusOkOrEmpty(data) == data.status \in {"OK", "ZERO_RESULTS"}

\* if data['status'] == 'OK', line 70
StatusOk(data) == data.status = "OK"

\* What a fetch leaves behind: as Outcome, with the number of requests sent
\* to the provider and the error raised.
FetchOutcome(exc, ret, fs, requests, error) ==
    [exc |-> exc, ret |-> ret, files |-> fs, requests |-> requests, error |-> error]

\* A variant in which the failure is saved as the entry of the request.
FilesWithFailure(fs, dir, t, cache_key) ==
    save_to_cache(fs, dir, t, cache_key, PyNone).files

\* The cache files after lines 107-137, which raise and write nothing.
FilesAfterError(fs, dir, t, cache_key) == fs

\* Lines 70-137: the response data of the provider is turned into a record,
\* which is saved, or into an error.
HandleResponse(fs, dir, t, cache_key, origin, waypoints, optimize, data) ==
    IF StatusOk(data)
      THEN LET waypoint_order == WaypointOrder(data, optimize)
           IN  IF Truthy(waypoint_order)
                  /\ \E i \in 1..Len(waypoint_order.items) :
                        ~InRange(waypoints, waypoint_order.items[i].n)
                 THEN FetchOutcome("IndexError", PyNone, fs, 1, NoError)
                 ELSE LET result ==
                            RouteRecord(RouteAddresses(origin, waypoints, waypoint_order),
                                        SumOf(data.legs, "distance"),
                                        SumOf(data.legs, "duration"),
                                        waypoint_order)
                          saved == save_to_cache(fs, dir, t, cache_key, result)
                      IN  IF saved.exc # "none"
                            THEN FetchOutcome(saved.exc, PyNone, saved.files, 1, NoError)
                            ELSE FetchOutcome("none", result, saved.files, 1, NoError)
      ELSE FetchOutcome("ValueError", PyNone, FilesAfterError(fs, dir, t, cache_key), 1,
                        ProviderError(data, origin, waypoints))

\* get_route_with_waypoints(origin, waypoints, optimize), where waypoints is
\* not empty and data is the response the provider gives if it is asked.
get_route_with_waypoints(fs, dir, t, origin, waypoints, optimize, data) ==
    LET cache_key == CacheKey(origin, waypoints, optimize)
        cached == get_from_cache(fs, dir, t, cache_key)
    IN  IF cached.exc # "none"
          THEN FetchOutcome(cached.exc, PyNone, cached.files, 0, NoError)
        ELSE IF cached.ret # PyNone
          THEN FetchOutcome("none", cached.ret, cached.files, 0, NoError)
        ELSE HandleResponse(cached.files, dir, t, cache_key,
                            origin, waypoints, optimize, data)

(***************************************************************************)
(* api.py: optimize_route.                                                 *)
(***************************************************************************)
\* if len(addresses) < 2, line 157
MinAddresses == 2

TooFewError == [kind |-> "too_few_addresses"]

\* One call of get_route_with_waypoints made by optimize_route: its
\* arguments, the cache files when it started, and what it left behind.
FetchEvent(origin, waypoints, optimize, fs, out) ==
    [origin |-> origin, waypoints |-> waypoints, optimize |-> optimize,
     pre_files |-> fs, exc |-> out.exc, ret |-> out.ret,
     requests |-> out.requests, post_files |-> out.files]

\* A variant in which an exception of the first fetch is swallowed.
NeverPropagates(first) == FALSE

\* Line 169 stands in no try block: an exception raised by the first fetch
\* leaves optimize_route.
Propagates(first) == first.exc # "none"

\* What optimize_route leaves behind: as Outcome, with the error raised and
\* the fetches it made, in the order it made them.
RouteOutcome(exc, ret, fs, error, fetches) ==
    [exc |-> exc, ret |-> ret, files |-> fs, error |-> error, fetches |-> fetches]

\* optimize_route(addresses); data1 and data2 are the responses the provider
\* gives to the first and to the second fetch if it is asked.
optimize_route(fs, dir, t, credential, addresses, data1, data2) ==
    IF ~Configured(credential)
      THEN RouteOutcome("ValueError", PyNone, fs, ConfigurationError, <<>>)
    ELSE IF Len(addresses) < MinAddresses
      THEN RouteOutcome("ValueError", PyNone, fs, TooFewError, <<>>)
    ELSE LET origin == addresses[1]
             waypoints == Tail(addresses)
             original == get_route_with_waypoints(fs, dir, t, origin, waypoints,
                                                  FALSE, data1)
             first == FetchEvent(origin, waypoints, FALSE, fs, original)
         IN  IF Propagates(original)
               THEN RouteOutcome(original.exc, PyNone, original.files,
                                 original.error, <<first>>)
             ELSE LET optimized == get_route_with_waypoints(original.files, dir, t, origin,
                                                            waypoints, TRUE, data2)
                      second == FetchEvent(origin, waypoints, TRUE,
                                           original.files, optimized)
                  IN  IF optimized.exc # "none"
                        THEN RouteOutcome(optimized.exc, PyNone, optimized.files,
                                          optimized.error, <<first, second>>)
                        ELSE RouteOutcome("none", <<original.ret, optimized.ret>>,
                                          optimized.files, NoError, <<first, second>>)

(***************************************************************************)
(* Python floats: IEEE 754 binary64, every operation rounded to the        *)
(* nearest float, ties to the even one.  A float that is not zero is a     *)
(* sign, a mantissa of MantissaBits bits and the exponent of its first     *)
(* bit: sign * mant * 2^(exp - MantissaBits + 1).  The numbers of the      *)
(* model are far from the ends of the exponent range.  A natural number    *)
(* too wide for the integers of the model is the sequence of its digits in *)
(* base 2^LimbBits, most significant first (<<>> is 0).                    *)
(***************************************************************************)
MantissaBits == 53

LimbBits == 14

Base == 2^LimbBits

FloatZero == [kind |-> "zero"]

Abs(n) == IF n < 0 THEN -n ELSE n

ZeroDigits(n) == [i \in 1..n |-> 0]

\* x without its leading zero digits.
Trim(x) ==
    IF \A i \in 1..Len(x) : x[i] = 0 THEN <<>>
    ELSE SubSeq(x, CHOOSE i \in 1..Len(x) : x[i] # 0 /\ \A j \in 1..(i - 1) : x[j] = 0,
                Len(x))

RECURSIVE NatOf(_)
\* The digits of an integer n >= 0.
NatOf(n) == IF n = 0 THEN <<>> ELSE Append(NatOf(n \div Base), n % Base)

PadTo(x, n) == ZeroDigits(n - Len(x)) \o x

Longest(a, b) == IF Len(a) > Len(b) THEN Len(a) ELSE Len(b)

\* a < b, a = b, a > b: -1, 0, 1.
CmpNat(a, b) ==
    LET n == Longest(a, b)
        x == PadTo(a, n)
        y == PadTo(b, n)
    IN  IF x = y THEN 0
        ELSE LET i == CHOOSE i \in 1..n : x[i] # y[i] /\ \A j \in 1..(i - 1) : x[j] = y[j]
             IN  IF x[i] < y[i] THEN -1 ELSE 1

RECURSIVE AddDigits(_, _, _, _, _)
\* The digits of a + b from position i down, with the carry so far, put
\* before acc; a and b have one length.
AddDigits(a, b, i, carry, acc) ==
    IF i = 0 THEN (IF carry = 0 THEN acc ELSE <<carry>> \o acc)
    ELSE AddDigits(a, b, i - 1, (a[i] + b[i] + carry) \div Base,
                   <<(a[i] + b[i] + carry) % Base>> \o acc)

AddNat(a, b) ==
    AddDigits(PadTo(a, Longest(a, b)), PadTo(b, Longest(a, b)), Longest(a, b), 0, <<>>)

RECURSIVE SubDigits(_, _, _, _, _)
\* The digits of a - b from position i down, with the borrow so far, put
\* before acc; a and b have one length and a >= b.
SubDigits(a, b, i, borrow, acc) ==
    IF i = 0 THEN acc
    ELSE SubDigits(a, b, i - 1, IF a[i] - b[i] - borrow < 0 THEN 1 ELSE 0,
                   <<(a[i] - b[i] - borrow + Base) % Base>> \o acc)

\* a - b, a >= b
SubNat(a, b) ==
    Trim(SubDigits(PadTo(a, Longest(a, b)), PadTo(b, Longest(a, b)),
                   Longest(a, b), 0, <<>>))

RECURSIVE MulDigits(_, _, _, _, _)
\* The digits of a * k from position i down, 0 <= k <= Base.
MulDigits(a, k, i, carry, acc) ==
    IF i = 0 THEN (IF carry = 0 THEN acc ELSE <<carry>> \o acc)
    ELSE MulDigits(a, k, i - 1, (a[i] * k + carry) \div Base,
                   <<(a[i] * k + carry) % Base>> \o acc)

\* a * k for an integer 0 <= k < Base
MulSmall(a, k) == Trim(MulDigits(a, k, Len(a), 0, <<>>))

RECURSIVE MulNat(_, _, _, _)
\* a * b: acc * Base + a * b[i] for every digit of b from position i on.
MulNat(a, b, i, acc) ==
    IF i > Len(b) THEN acc
    ELSE MulNat(a, b, i + 1, AddNat(Trim(Append(acc, 0)), MulSmall(a, b[i])))

RECURSIVE DivDigits(_, _, _, _, _)
\* Long division of a by an integer 0 < d <= Base from position i on, with
\* the remainder r so far.
DivDigits(a, d, i, r, acc) ==
    IF i > Len(a) THEN [quotient |-> Trim(acc), remainder |-> r]
    ELSE DivDigits(a, d, i + 1, (r * Base + a[i]) % d,
                   Append(acc, (r * Base + a[i]) \div d))

DivSmall(a, d) == DivDigits(a, d, 1, 0, <<>>)

RECURSIVE QuotientDigit(_, _, _, _)
\* The largest q in lo..hi with d * q <= r, where d * lo <= r.
QuotientDigit(r, d, lo, hi) ==
    IF lo = hi THEN lo
    ELSE IF CmpNat(MulSmall(d, (lo + hi + 1) \div 2), r) <= 0
      THEN QuotientDigit(r, d, (lo + hi + 1) \div 2, hi)
    ELSE QuotientDigit(r, d, lo, (lo + hi + 1) \div 2 - 1)

RECURSIVE DivLong(_, _, _, _, _)
\* Long division of a by d > 0 from position i on, with the remainder r so
\* far.
DivLong(a, d, i, r, acc) ==
    IF i > Len(a) THEN [quotient |-> Trim(acc), remainder |-> r]
    ELSE LET v == Trim(Append(r, a[i]))
             q == QuotientDigit(v, d, 0, Base - 1)
         IN  DivLong(a, d, i + 1, SubNat(v, MulSmall(d, q)), Append(acc, q))

DivNat(a, d) == DivLong(a, d, 1, <<>>, <<>>)

\* The number of bits of x > 0.
BitLen(x) ==
    (Len(x) - 1) * LimbBits
    + CHOOSE k \in 1..LimbBits : 2^(k - 1) <= x[1] /\ x[1] < 2^k

\* x * 2^s
ShiftLeft(x, s) == Trim(MulSmall(x, 2^(s % LimbBits)) \o ZeroDigits(s \div LimbBits))

\* x div 2^s
ShiftRight(x, s) ==
    DivSmall(SubSeq(x, 1, Len(x) - s \div LimbBits), 2^(s % LimbBits)).quotient

\* The float nearest to sign * (n + f) * 2^lsb, where n is a natural number,
\* 0 <= f < 1 and sticky tells that f > 0; of two nearest floats, the one
\* with an even mantissa.  When f > 0, n has more bits than the mantissa.
RoundFloat(sign, n, sticky, lsb) ==
    IF Trim(n) = <<>> THEN FloatZero
    ELSE LET x == Trim(n)
             len == BitLen(x)
             drop == len - MantissaBits
         IN  IF drop <= 0
               THEN [kind |-> "num", sign |-> sign, mant |-> ShiftLeft(x, -drop),
                     exp |-> lsb + len - 1]
             ELSE LET kept == ShiftRight(x, drop)
                      rest == CmpNat(SubNat(x, ShiftLeft(kept, drop)),
                                     ShiftLeft(<<1>>, drop - 1))
                      up == \/ rest > 0
                            \/ rest = 0 /\ (sticky \/ kept[Len(kept)] % 2 = 1)
                      rounded == IF up THEN AddNat(kept, <<1>>) ELSE kept
                  IN  IF BitLen(rounded) > MantissaBits
                        THEN [kind |-> "num", sign |-> sign,
                              mant |-> ShiftRight(rounded, 1), exp |-> lsb + len]
                        ELSE [kind |-> "num", sign |-> sign,
                              mant |-> rounded, exp |-> lsb + len - 1]

\* The exponent of the last bit of the mantissa.
LsbExp(x) == x.exp - (MantissaBits - 1)

\* n / d for integers n and d > 0: Python's true division of ints, and the
\* float that the decimal literal n/d stands for.
FloatOfRatio(n, d) ==
    LET res == DivNat(NatOf(Abs(n)) \o ZeroDigits(7), NatOf(d))
    IN  RoundFloat(IF n < 0 THEN -1 ELSE 1, res.quotient, res.remainder # <<>>,
                   -7 * LimbBits)

\* float(n)
FloatOf(n) == FloatOfRatio(n, 1)

IsZero(x) == x.kind = "zero"

FloatNeg(x) == IF IsZero(x) THEN x ELSE [x EXCEPT !.sign = -x.sign]

\* x / y, y not zero (Python raises ZeroDivisionError when it is)
FloatDiv(x, y) ==
    IF IsZero(x) THEN FloatZero
    ELSE LET res == DivNat(x.mant \o ZeroDigits(4), y.mant)
         IN  RoundFloat(x.sign * y.sign, res.quotient, res.remainder # <<>>,
                        x.exp - y.exp - 4 * LimbBits)

\* x * y
FloatMul(x, y) ==
    IF IsZero(x) \/ IsZero(y) THEN FloatZero
    ELSE RoundFloat(x.sign * y.sign, MulNat(x.mant, y.mant, 1, <<>>), FALSE,
                    LsbExp(x) + LsbExp(y))

\* x - y
FloatSub(x, y) ==
    IF IsZero(y) THEN x
    ELSE IF IsZero(x) THEN FloatNeg(y)
    ELSE LET lsb == IF LsbExp(x) < LsbExp(y) THEN LsbExp(x) ELSE LsbExp(y)
             a == ShiftLeft(x.mant, LsbExp(x) - lsb)
             b == ShiftLeft(y.mant, LsbExp(y) - lsb)
         IN  IF x.sign # y.sign THEN RoundFloat(x.sign, AddNat(a, b), FALSE, lsb)
             ELSE IF CmpNat(a, b) >= 0
               THEN RoundFloat(x.sign, SubNat(a, b), FALSE, lsb)
             ELSE RoundFloat(-x.sign, SubNat(b, a), FALSE, lsb)

\* x < 0
IsNegative(x) == ~IsZero(x) /\ x.sign = -1

\* x < y
FloatLess(x, y) == IsNegative(FloatSub(x, y))

(***************************************************************************)
(* utils.py                                                                *)
(***************************************************************************)
FUEL_CONSUMPTION_L_PER_100KM == FloatOfRatio(17, 2)    \* 8.5

\* A variant with a price of 1 EUR/L.
PriceOfOne == FloatOf(1)

FUEL_PRICE_EUR_PER_L == FloatOfRatio(3, 2)             \* 1.50

RECURSIVE Zeros(_)
Zeros(n) == IF n <= 0 THEN "" ELSE "0" \o Zeros(n - 1)

\* f"{n:02d}" for n >= 0: the digits of n, filled with zeros to the width.
FormatD(n, width) == Zeros(width - Len(ToString(n))) \o ToString(n)

\* hours = seconds // 3600
Hours(seconds) == seconds \div 3600

\* A variant that counts all the minutes in seconds.
MinutesInAll(seconds) == seconds \div 60

\* minutes = (seconds % 3600) // 60
Minutes(seconds) == (seconds % 3600) \div 60

format_duration(seconds) ==
    FormatD(Hours(seconds), 2) \o ":" \o FormatD(Minutes(seconds), 2)

calculate_fuel_cost(distance_m) ==
    LET distance_km == FloatOfRatio(distance_m, 1000)
        fuel_liters == FloatMul(FloatDiv(distance_km, FloatOf(100)),
                                FUEL_CONSUMPTION_L_PER_100KM)
        fuel_cost == FloatMul(fuel_liters, FUEL_PRICE_EUR_PER_L)
    IN  fuel_cost

(***************************************************************************)
(* input_handler.py.  A text that is looked into is the sequence of its    *)
(* characters; the texts of the model are ASCII.                           *)
(***************************************************************************)
LowerCase ==
    <<"a", "b", "c", "d", "e", "f", "g", "h", "i", "j", "k", "l", "m",
      "n", "o", "p", "q", "r", "s", "t", "u", "v", "w", "x", "y", "z">>

UpperCase ==
    <<"A", "B", "C", "D", "E", "F", "G", "H", "I", "J", "K", "L", "M",
      "N", "O", "P", "Q", "R", "S", "T", "U", "V", "W", "X", "Y", "Z">>

\* [a-zA-Z]
Letters == {LowerCase[i] : i \in 1..Len(LowerCase)} \cup {UpperCase[i] : i \in 1..Len(UpperCase)}

\* \d
Digits == {"0", "1", "2", "3", "4", "5", "6", "7", "8", "9"}

\* \s, and what strip() and split() take for blank
Whitespace == {" ", "\t", "\n", "\r", "\f"}

\* [a-zA-Z0-9\s,.\-/], line 40
AddressCharacters == Letters \cup Digits \cup Whitespace \cup {",", ".", "-", "/"}

\* str.lower()
lower(s) ==
    [i \in 1..Len(s) |->
        IF \E k \in 1..Len(UpperCase) : UpperCase[k] = s[i]
          THEN LowerCase[CHOOSE k \in 1..Len(UpperCase) : UpperCase[k] = s[i]]
          ELSE s[i]]

\* str.strip()
strip(s) ==
    LET black == {i \in 1..Len(s) : s[i] \notin Whitespace}
    IN  IF black = {} THEN <<>>
        ELSE SubSeq(s, CHOOSE i \in black : \A j \in black : i <= j,
                       CHOOSE i \in black : \A j \in black : j <= i)

\* str.split(): the words between the blanks; word i starts where a
\* character that is not blank follows a blank or nothing.
split(s) ==
    LET starts == {i \in 1..Len(s) : s[i] \notin Whitespace
                                     /\ (i = 1 \/ s[i - 1] \in Whitespace)}
        EndOf(i) == CHOOSE j \in i..Len(s) :
                       /\ \A k \in i..j : s[k] \notin Whitespace
                       /\ (j = Len(s) \/ s[j + 1] \in Whitespace)
        StartNo(n) == CHOOSE i \in starts : Cardinality({j \in starts : j <= i}) = n
    IN  [n \in 1..Cardinality(starts) |-> SubSeq(s, StartNo(n), EndOf(StartNo(n)))]

RECURSIVE JoinSeq(_, _)
\* sep.join(words), on sequences of characters
JoinSeq(words, sep) ==
    IF Len(words) = 0 THEN <<>>
    ELSE IF Len(words) = 1 THEN words[1]
    ELSE words[1] \o sep \o JoinSeq(Tail(words), sep)

\* ' '.join(addr.lower().split()), line 105
Normalized(addr) == JoinSeq(split(lower(addr)), <<" ">>)

\* The characters as one string.
Text(chars) == JoinStr(chars, "")

\* len(address) < 5, line 24
MinAddressLength == 5

\* len(address) > 200, line 27
MaxAddressLength == 200

\* (.)\1{4,}, line 46: a character and four more of it
MinRepeats == 4

Invalid(kind, line_number) ==
    [ok |-> FALSE, error |-> [kind |-> kind, line |-> line_number]]

\* validate_address(address, line_number): (is_valid, error_message)
validate_address(address, line_number) ==
    IF Len(address) < MinAddressLength THEN Invalid("too_short", line_number)
    ELSE IF Len(address) > MaxAddressLength THEN Invalid("too_long", line_number)
    ELSE IF ~\E i \in 1..Len(address) : address[i] \in Letters
      THEN Invalid("no_letters", line_number)
    ELSE IF ~\E i \in 1..Len(address) : address[i] \in Digits
      THEN Invalid("no_street_number", line_number)
    ELSE IF FloatLess(FloatMul(FloatOf(Len(address)), FloatOfRatio(3, 10)),
                      FloatOf(Len(SelectSeq(address, LAMBDA c : c \notin AddressCharacters))))
      THEN Invalid("special_characters", line_number)
    ELSE IF \E i \in 1..(Len(address) - MinRepeats) :
               \A j \in 1..MinRepeats : address[i + j] = address[i]
      THEN Invalid("repeated_characters", line_number)
    ELSE IF strip(address) = <<>> THEN Invalid("empty", line_number)
    ELSE [ok |-> TRUE, error |-> NoError]

\* The input file: absent, or its lines without their ends.
NoInputFile == [exists |-> FALSE, lines |-> <<>>]

InputFile(lines) == [exists |-> TRUE, lines |-> lines]

\* len(addresses) < 2, line 90
MinFileAddresses == 2

\* len(addresses) > 26, line 93
MaxFileAddresses == 26

ReadOutcome(exc, ret, error) == [exc |-> exc, ret |-> ret, error |-> error]

\* Lines 100-113: every address whose normalized form stood on an earlier
\* line, with the first such line.
Duplicates(addresses) ==
    LET normalized == [i \in 1..Len(addresses) |-> Normalized(addresses[i])]
        First(i) == CHOOSE j \in 1..i : /\ normalized[j] = normalized[i]
                                        /\ \A k \in 1..(j - 1) : normalized[k] # normalized[i]
    IN  SelectSeq([i \in 1..Len(addresses) |-> <<First(i), i>>],
                  LAMBDA pair : pair[1] # pair[2])

\* Lines 89-119, for the addresses read from the file.
CheckAddresses(addresses, duplicates) ==
    IF Len(addresses) < MinFileAddresses
      THEN ReadOutcome("ValueError", <<>>, [kind |-> "too_few", found |-> Len(addresses)])
    ELSE IF Len(addresses) > MaxFileAddresses
      THEN ReadOutcome("ValueError", <<>>, [kind |-> "too_many", found |-> Len(addresses)])
    ELSE IF duplicates # <<>>
      THEN ReadOutcome("ValueError", <<>>, [kind |-> "duplicates", lines |-> duplicates])
    ELSE ReadOutcome("none", addresses, NoError)

\* Lines 76-88, for the stripped lines of the file and the validation of
\* each: the first line that is not valid ends the reading.
ReadLines(lines, checked) ==
    IF \E i \in 1..Len(lines) : lines[i] # <<>> /\ ~checked[i].ok
      THEN ReadOutcome("ValueError", <<>>,
              checked[CHOOSE i \in 1..Len(lines) :
                         /\ lines[i] # <<>> /\ ~checked[i].ok
                         /\ \A j \in 1..(i - 1) : lines[j] = <<>> \/ checked[j].ok].error)
    ELSE CheckAddresses(SelectSeq(lines, LAMBDA line : line # <<>>),
                        Duplicates(SelectSeq(lines, LAMBDA line : line # <<>>)))

\* read_addresses_from_file('input.txt')
read_addresses_from_file(input) ==
    IF ~input.exists
      THEN ReadOutcome("FileNotFoundError", <<>>, [kind |-> "file_not_found"])
    ELSE ReadLines([i \in 1..Len(input.lines) |-> strip(input.lines[i])],
                   [i \in 1..Len(input.lines) |->
                       validate_address(strip(input.lines[i]), i)])

\* n div 2^s, rounded to the nearest integer, to the even one of two.
RoundShift(n, s) ==
    IF s = 0 THEN n
    ELSE LET kept == ShiftRight(n, s)
             rest == CmpNat(SubNat(n, ShiftLeft(kept, s)), ShiftLeft(<<1>>, s - 1))
             odd == kept # <<>> /\ kept[Len(kept)] % 2 = 1
         IN  IF rest > 0 \/ (rest = 0 /\ odd) THEN AddNat(kept, <<1>>) ELSE kept

RECURSIVE DecimalDigits(_)
\* The decimal digits of a natural number, none for 0.
DecimalDigits(n) ==
    IF n = <<>> THEN <<>>
    ELSE Append(DecimalDigits(DivSmall(n, 10).quotient),
                ToString(DivSmall(n, 10).remainder))

\* f"{x:.2f}", f"{x:.1f}": x in decimal, rounded to so many digits after the
\* point (the nearest such number to the float's value, the even one of two).
FormatFixed(x, digits) ==
    LET n == IF IsZero(x) THEN <<>>
             ELSE IF LsbExp(x) >= 0
               THEN ShiftLeft(MulSmall(x.mant, 10^digits), LsbExp(x))
             ELSE RoundShift(MulSmall(x.mant, 10^digits), -LsbExp(x))
        text == DecimalDigits(n)
        padded == [i \in 1..(digits + 1 - Len(text)) |-> "0"] \o text
    IN  (IF ~IsZero(x) /\ x.sign = -1 THEN "-" ELSE "")
        \o JoinStr(SubSeq(padded, 1, Len(padded) - digits), "")
        \o "." \o JoinStr(SubSeq(padded, Len(padded) - digits + 1, Len(padded)), "")


(***************************************************************************)
(* The inputs of the model.                                                *)
(***************************************************************************)
Credentials == {NoCredential, "K1", "K2"}

Leg(distance, duration) == [distance |-> distance, duration |-> duration]

LegLists == { <<Leg(5000, 600)>>, <<Leg(5000, 600), Leg(7000, 300)>> }

\* The waypoint_order values a response to n waypoints may hold: the empty
\* list, the input order, its reverse, one index repeated, an index past the
\* end.
WaypointOrders(n) ==
    { <<>>, [i \in 1..n |-> i - 1], [i \in 1..n |-> n - i], [i \in 1..n |-> 0], <<n>> }

Response(status, legs, has_order, order, has_geocoded, geocoded, has_message, message) ==
    [status |-> status, legs |-> legs,
     has_waypoint_order |-> has_order, waypoint_order |-> order,
     has_geocoded_waypoints |-> has_geocoded, geocoded_waypoints |-> geocoded,
     has_error_message |-> has_message, error_message |-> message]

OkResponses(waypoints) ==
    { Response("OK", legs, FALSE, <<>>, FALSE, <<>>, FALSE, "") : legs \in LegLists }
    \cup { Response("OK", <<Leg(5000, 600)>>, TRUE, order, FALSE, <<>>, FALSE, "") :
             order \in WaypointOrders(Len(waypoints)) }

ErrorResponses ==
    { Response("NOT_FOUND", <<>>, FALSE, <<>>, TRUE, <<"OK", "ZERO_RESULTS">>, FALSE, ""),
      Response("ZERO_RESULTS", <<>>, FALSE, <<>>, FALSE, <<>>, FALSE, "") }

\* What the provider may answer: a request without a key is denied.
Responses(waypoints, credential) ==
    IF Configured(credential)
      THEN OkResponses(waypoints) \cup ErrorResponses
      ELSE { Response("REQUEST_DENIED", <<>>, FALSE, <<>>, FALSE, <<>>,
                      TRUE, "You must use an API key") }

\* A cache file some other program wrote or damaged.
SampleRecord == RouteRecord(<<"o", "b">>, 5000, 600, PyNone)

CorruptContents ==
    { JBad(""),
      JArr(<<>>),
      JNum(7),
      JObj(<< <<"data", json_dump(SampleRecord)>> >>),
      JObj(<< <<"timestamp", JNum(0)>>, <<"data", json_dump(SampleRecord)>> >>),
      JObj(<< <<"timestamp", JStr("yesterday")>>, <<"data", json_dump(SampleRecord)>> >>),
      JObj(<< <<"timestamp", JStr(isoformat(0))>> >>),
      JObj(<< <<"timestamp", JStr(isoformat(0))>>, <<"data", JNull>> >>),
      JObj(<< <<"timestamp", JStr(isoformat(0))>>, <<"data", JNum(5)>> >>) }

\* The damage done to the files the client reads: a truncated file, and a
\* document that is no object.
Unreadable == { JBad(""), JArr(<<>>) }

(***************************************************************************)
(* The sequential program: one call at a time.                             *)
(***************************************************************************)
Idle == [op |-> "idle"]

NoFetch == [op |-> "none"]

StoredBy(sb, k) == IF k \in DOMAIN sb THEN sb[k] ELSE NoFetch

\* The history of the files that a call left as they were.
Unaltered(sb, fs, fs2) ==
    [k \in {x \in DOMAIN sb : x \in DOMAIN fs2 /\ fs2[x] = fs[x]} |-> sb[k]]

Init ==
    /\ cache_dir = FALSE
    /\ files = << >>
    /\ now = 0
    /\ GOOGLE_MAPS_API_KEY \in Credentials
    /\ call = Idle
    /\ stored_by = << >>
    /\ saver = Idle
    /\ getter = Idle

InitCache ==
    /\ cache_dir' = init_cache(cache_dir)
    /\ call' = Idle
    /\ UNCHANGED <<files, now, GOOGLE_MAPS_API_KEY, stored_by, saver, getter>>

\* Time passes.
Tick(d) ==
    /\ now + d <= MaxNow
    /\ now' = now + d
    /\ call' = Idle
    /\ UNCHANGED <<cache_dir, files, GOOGLE_MAPS_API_KEY, stored_by, saver, getter>>

\* Another run of the program, with another environment.
LoadDotenv(credential) ==
    /\ credential # GOOGLE_MAPS_API_KEY
    /\ GOOGLE_MAPS_API_KEY' = credential
    /\ call' = Idle
    /\ UNCHANGED <<cache_dir, files, now, stored_by, saver, getter>>

\* A cache file is overwritten from outside the program.
Damage(k, doc) ==
    /\ k \in DOMAIN files
    /\ files[k] # doc
    /\ files' = [files EXCEPT ![k] = doc]
    /\ stored_by' = Unaltered(stored_by, files, files')
    /\ call' = Idle
    /\ UNCHANGED <<cache_dir, now, GOOGLE_MAPS_API_KEY, saver, getter>>

\* The answers the provider may give to the call, NoResponse when the call
\* does not ask it.
NoResponse == Response("", <<>>, FALSE, <<>>, FALSE, <<>>, FALSE, "")

Answers(origin, waypoints, optimize) ==
    IF AsksProvider(files, cache_dir, now, origin, waypoints, optimize)
      THEN Responses(waypoints, GOOGLE_MAPS_API_KEY)
      ELSE {NoResponse}

Fetch(origin, waypoints, optimize, data) ==
    \E out \in {get_route_with_waypoints(files, cache_dir, now,
                                         origin, waypoints, optimize, data)} :
    LET key == CacheKey(origin, waypoints, optimize)
        saved == out.requests = 1 /\ out.exc = "none"
    IN  /\ files' = out.files
        /\ stored_by' =
             LET kept == Unaltered(stored_by, files, out.files)
                 this == [op |-> "get_route_with_waypoints", origin |-> origin,
                          waypoints |-> waypoints, optimize |-> optimize,
                          credential |-> GOOGLE_MAPS_API_KEY, ret |-> out.ret]
             IN  IF saved
                   THEN [k \in DOMAIN kept \cup {key} |-> IF k = key THEN this ELSE kept[k]]
                   ELSE kept
        /\ call' = [op |-> "get_route_with_waypoints",
                    origin |-> origin, waypoints |-> waypoints, optimize |-> optimize,
                    key |-> key, at |-> now, credential |-> GOOGLE_MAPS_API_KEY,
                    pre |-> Content(files, key), pre_by |-> StoredBy(stored_by, key),
                    exc |-> out.exc, ret |-> out.ret, requests |-> out.requests,
                    status |-> IF out.requests = 1 THEN data.status ELSE "",
                    error |-> out.error, post |-> Content(out.files, key)]
        /\ UNCHANGED <<cache_dir, now, GOOGLE_MAPS_API_KEY, saver, getter>>

Next ==
    \/ InitCache
    \/ \E d \in Elapsed : Tick(d)
    \/ \E credential \in Credentials : LoadDotenv(credential)
    \/ \E k \in DOMAIN files, doc \in Unreadable : Damage(k, doc)
    \/ \E origin \in Origins, waypoints \in WaypointLists, optimize \in BOOLEAN :
         \E data \in Answers(origin, waypoints, optimize) :
            Fetch(origin, waypoints, optimize, data)

Spec == Init /\ [][Next]_vars

(***************************************************************************)
(* cache.py called directly: SpecCache.                                    *)
(***************************************************************************)
\* Records to save: one in input order, one with a waypoint order.
SampleRecords ==
    { SampleRecord,
      RouteRecord(<<"o", "b", "a|a">>, 12000, 900, PyList(<<PyInt(1), PyInt(0)>>)) }

CacheKeys == {KeyOf[q] : q \in DOMAIN KeyOf}

NoSave == [op |-> "none"]

CacheInit == Init /\ GOOGLE_MAPS_API_KEY = NoCredential

SaveToCache(k, data) ==
    \E out \in {save_to_cache(files, cache_dir, now, k, data)} :
        /\ files' = out.files
        /\ stored_by' = Unaltered(stored_by, files, out.files)
        /\ call' = [op |-> "save_to_cache", key |-> k, data |-> data, at |-> now,
                    pre |-> Content(files, k), exc |-> out.exc,
                    post |-> Content(out.files, k)]
        /\ UNCHANGED <<cache_dir, now, GOOGLE_MAPS_API_KEY, saver, getter>>

GetFromCache(k) ==
    \E out \in {get_from_cache(files, cache_dir, now, k)} :
        /\ files' = out.files
        /\ stored_by' = Unaltered(stored_by, files, out.files)
        /\ call' = [op |-> "get_from_cache", key |-> k, at |-> now,
                    pre |-> Content(files, k), exc |-> out.exc, ret |-> out.ret,
                    post |-> Content(out.files, k),
                    \* the save that came right before this call, if one did
                    after_save |->
                       IF call.op = "save_to_cache" /\ call.exc = "none" /\ call.key = k
                         THEN [op |-> "save_to_cache", data |-> call.data,
                               over |-> call.pre]
                         ELSE NoSave]
        /\ UNCHANGED <<cache_dir, now, GOOGLE_MAPS_API_KEY, saver, getter>>

CacheNext ==
    \/ InitCache
    \/ \E d \in Elapsed : Tick(d)
    \/ \E k \in DOMAIN files, doc \in CorruptContents : Damage(k, doc)
    \/ \E k \in CacheKeys, data \in SampleRecords : SaveToCache(k, data)
    \/ \E k \in CacheKeys : GetFromCache(k)

SpecCache == CacheInit /\ [][CacheNext]_vars

(***************************************************************************)
(* generate_cache_key applied to parameter maps: SpecKey.                  *)
(***************************************************************************)
\* The field/value pairs of a request, and every order of inserting them.
ParamPairs ==
    { << <<"origin", PyStr(o)>>, <<"destination", PyStr(d)>>,
         <<"waypoints", PyStr(w)>>, <<"mode", PyStr("driving")>> >> :
        o \in {"o", "p"}, d \in {"a", "b"}, w \in {"a|a|b", "optimize:true|a|a|b"} }

Orderings(n) == {f \in [1..n -> 1..n] : \A i, j \in 1..n : f[i] = f[j] => i = j}

ParamMaps ==
    { PyDict([i \in 1..Len(pairs) |-> pairs[f[i]]]) :
        pairs \in ParamPairs, f \in Orderings(4) }

\* dict equality: the same keys with the same values, in any order.
DictEq(d1, d2) ==
    /\ Len(d1.pairs) = Len(d2.pairs)
    /\ \A i \in 1..Len(d1.pairs) :
          HasKey(d2, d1.pairs[i][1]) /\ GetItem(d2, d1.pairs[i][1]) = d1.pairs[i][2]

GenerateCacheKey(params) ==
    /\ call' = [op |-> "generate_cache_key", params |-> params,
                key |-> generate_cache_key(params)]
    /\ UNCHANGED <<cache_dir, files, now, GOOGLE_MAPS_API_KEY, stored_by, saver, getter>>

KeyNext == \E params \in ParamMaps : GenerateCacheKey(params)

SpecKey == CacheInit /\ [][KeyNext]_vars

(***************************************************************************)
(* One process inside save_to_cache and one inside get_from_cache, step by *)
(* step: SpecConc.  open(cache_file, 'w') creates or truncates the file,   *)
(* json.dump writes into Python's buffer, which reaches the file in part   *)
(* when it fills and in full when the with block closes the file.  A file  *)
(* that is unlinked while it is open is still written to, under no name.   *)
(***************************************************************************)
ConcKey == CacheKey("o", <<"a|a", "b">>, FALSE)

\* The file before the processes start: none, an entry, a damaged file.
ConcInit ==
    /\ cache_dir = TRUE
    /\ now \in {0, CACHE_EXPIRY_DAYS + 1}
    /\ files \in { << >>,
                   WriteFile(<< >>, ConcKey, json_dump(CacheEntry(0, SampleRecord))),
                   WriteFile(<< >>, ConcKey, JArr(<<>>)),
                   WriteFile(<< >>, ConcKey, JObj(<< <<"data", JNull>> >>)) }
    /\ GOOGLE_MAPS_API_KEY = NoCredential
    /\ call = Idle
    /\ stored_by = << >>
    /\ saver = Idle
    /\ getter = Idle

\* with open(cache_file, 'w') as f, line 88
SaveOpen(k, data) ==
    /\ saver.op = "idle"
    /\ cache_dir
    /\ saver' = [op |-> "save_to_cache", pc |-> "open", key |-> k,
                 old |-> Content(files, k),
                 entry |-> json_dump(CacheEntry(now, data)),
                 linked |-> TRUE]
    /\ files' = WriteFile(files, k, JBad(""))
    /\ UNCHANGED <<cache_dir, now, GOOGLE_MAPS_API_KEY, call, stored_by, getter>>

\* json.dump(cache_entry, f, indent=2), line 89: the buffer is flushed in part
SaveFlush ==
    /\ saver.op = "save_to_cache" /\ saver.pc = "open"
    /\ saver' = [saver EXCEPT !.pc = "flushed"]
    /\ files' = IF saver.linked
                  THEN WriteFile(files, saver.key, JBad("{ \"timestamp\": "))
                  ELSE files
    /\ UNCHANGED <<cache_dir, now, GOOGLE_MAPS_API_KEY, call, stored_by, getter>>

\* the with block ends: the rest is written and the file is closed
SaveClose ==
    /\ saver.op = "save_to_cache" /\ saver.pc \in {"open", "flushed"}
    /\ saver' = [saver EXCEPT !.pc = "done"]
    /\ files' = IF saver.linked THEN WriteFile(files, saver.key, saver.entry) ELSE files
    /\ UNCHANGED <<cache_dir, now, GOOGLE_MAPS_API_KEY, call, stored_by, getter>>

\* if not cache_file.exists(): return None, lines 49-50
GetExists(k) ==
    /\ getter.op = "idle"
    /\ getter' = IF k \in DOMAIN files
                   THEN [op |-> "get_from_cache", pc |-> "exists", key |-> k,
                         seen |-> NoFile, torn |-> FALSE, exc |-> "none", ret |-> PyNone]
                   ELSE [op |-> "get_from_cache", pc |-> "done", key |-> k,
                         seen |-> NoFile, torn |-> FALSE, exc |-> "none", ret |-> PyNone]
    /\ UNCHANGED <<cache_dir, files, now, GOOGLE_MAPS_API_KEY, call, stored_by, saver>>

\* Lines 53-65: the file is opened and read, and what was read is judged as
\* get_from_cache judges it.  torn: the file was read while it was written.
GetRead ==
    /\ getter.op = "get_from_cache" /\ getter.pc = "exists"
    /\ LET k == getter.key
           seen == Content(files, k)
           out == get_from_cache(WriteFile(<< >>, k, seen), TRUE, now, k)
           torn == /\ saver.op = "save_to_cache"
                   /\ saver.pc \in {"open", "flushed"}
                   /\ saver.key = k /\ saver.linked
       IN  getter' =
             IF seen = NoFile      \* open raises FileNotFoundError
               THEN [getter EXCEPT !.pc = "done", !.exc = "FileNotFoundError"]
             ELSE IF out.exc = "none" /\ k \notin DOMAIN out.files
               THEN [getter EXCEPT !.pc = "unlink", !.seen = seen, !.torn = torn]
             ELSE [getter EXCEPT !.pc = "done", !.seen = seen, !.torn = torn,
                                 !.exc = out.exc, !.ret = out.ret]
    /\ UNCHANGED <<cache_dir, files, now, GOOGLE_MAPS_API_KEY, call, stored_by, saver>>

\* cache_file.unlink(); return None, lines 62-63 and 69-70
GetUnlink ==
    /\ getter.op = "get_from_cache" /\ getter.pc = "unlink"
    /\ IF getter.key \in DOMAIN files
         THEN /\ files' = Unlink(files, getter.key)
              /\ getter' = [getter EXCEPT !.pc = "done"]
              /\ saver' = IF saver.op = "save_to_cache" /\ saver.key = getter.key
                            THEN [saver EXCEPT !.linked = FALSE]
                            ELSE saver
         ELSE /\ getter' = [getter EXCEPT !.pc = "done", !.exc = "FileNotFoundError"]
              /\ UNCHANGED <<files, saver>>
    /\ UNCHANGED <<cache_dir, now, GOOGLE_MAPS_API_KEY, call, stored_by>>

\* The call has returned; the process may call again.
GetReturn ==
    /\ getter.op = "get_from_cache" /\ getter.pc = "done"
    /\ getter' = Idle
    /\ UNCHANGED <<cache_dir, files, now, GOOGLE_MAPS_API_KEY, call, stored_by, saver>>

ConcNext ==
    \/ \E data \in SampleRecords : SaveOpen(ConcKey, data)
    \/ SaveFlush
    \/ SaveClose
    \/ GetExists(ConcKey)
    \/ GetRead
    \/ GetUnlink
    \/ GetReturn

SpecConc == ConcInit /\ [][ConcNext]_vars

(***************************************************************************)
(* optimize_route called with a list of addresses: SpecOpt.                *)
(***************************************************************************)
\* The address lists: too short ones, and the origin with each stop list.
AddressLists ==
    { <<>>, <<"o">> } \cup { <<o>> \o w : o \in Origins, w \in WaypointLists }

\* GOOGLE_MAPS_API_KEY may also be set to the empty string.
OptCredentials == {NoCredential, "", "K1"}

OptInit ==
    /\ cache_dir = FALSE
    /\ files = << >>
    /\ now = 0
    /\ GOOGLE_MAPS_API_KEY \in OptCredentials
    /\ call = Idle
    /\ stored_by = << >>
    /\ saver = Idle
    /\ getter = Idle

\* The answers the provider may give to a fetch of optimize_route that
\* starts with the cache files fs.
OptAnswers(fs, addresses, optimize) ==
    IF /\ Configured(GOOGLE_MAPS_API_KEY)
       /\ Len(addresses) >= MinAddresses
       /\ AsksProvider(fs, cache_dir, now, addresses[1], Tail(addresses), optimize)
      THEN Responses(Tail(addresses), GOOGLE_MAPS_API_KEY)
      ELSE {NoResponse}

\* The cache files after the first fetch of optimize_route.
AfterOriginal(addresses, data1) ==
    IF Configured(GOOGLE_MAPS_API_KEY) /\ Len(addresses) >= MinAddresses
      THEN get_route_with_waypoints(files, cache_dir, now, addresses[1],
                                    Tail(addresses), FALSE, data1).files
      ELSE files

OptimizeRoute(addresses, data1, data2) ==
    \E out \in {optimize_route(files, cache_dir, now, GOOGLE_MAPS_API_KEY,
                               addresses, data1, data2)} :
        /\ files' = out.files
        /\ call' = [op |-> "optimize_route", addresses |-> addresses,
                    credential |-> GOOGLE_MAPS_API_KEY, at |-> now,
                    pre_files |-> files, exc |-> out.exc, ret |-> out.ret,
                    error |-> out.error, fetches |-> out.fetches,
                    post_files |-> out.files]
        /\ UNCHANGED <<cache_dir, now, GOOGLE_MAPS_API_KEY, stored_by, saver, getter>>

OptNext ==
    \/ InitCache
    \/ \E d \in Elapsed : Tick(d)
    \/ \E credential \in OptCredentials : LoadDotenv(credential)
    \/ \E k \in DOMAIN files, doc \in Unreadable : Damage(k, doc)
    \/ \E addresses \in AddressLists :
         \E data1 \in OptAnswers(files, addresses, FALSE) :
            \E data2 \in OptAnswers(AfterOriginal(addresses, data1), addresses, TRUE) :
               OptimizeRoute(addresses, data1, data2)

SpecOpt == OptInit /\ [][OptNext]_vars

(***************************************************************************)
(* utils.py called directly: SpecUtils.                                    *)
(***************************************************************************)
MaxSeconds == 7300

MaxMeters == 300

\* Every duration up to MaxSeconds, and some around an hour, ten hours, a
\* day and a hundred hours.
DurationSamples ==
    (0..MaxSeconds) \cup {35999, 36000, 86399, 86400, 90000, 359999, 360000}

DistanceSamples == (0..MaxMeters) \cup {10000, 12000, 12345, 15000}

\* Each run applies one of the functions to one input.
FormatDuration(seconds) ==
    /\ call = Idle
    /\ call' = [op |-> "format_duration", seconds |-> seconds,
                ret |-> format_duration(seconds)]
    /\ UNCHANGED <<cache_dir, files, now, GOOGLE_MAPS_API_KEY, stored_by, saver, getter>>

CalculateFuelCost(distance_m) ==
    /\ call = Idle
    /\ call' = [op |-> "calculate_fuel_cost", distance_m |-> distance_m,
                ret |-> calculate_fuel_cost(distance_m)]
    /\ UNCHANGED <<cache_dir, files, now, GOOGLE_MAPS_API_KEY, stored_by, saver, getter>>

UtilsNext ==
    \/ \E seconds \in DurationSamples : FormatDuration(seconds)
    \/ \E distance_m \in DistanceSamples : CalculateFuelCost(distance_m)

SpecUtils == CacheInit /\ [][UtilsNext]_vars

(***************************************************************************)
(* init_cache step by step, in several processes: SpecInit.                *)
(* CACHE_DIR.mkdir(exist_ok=True) is the system call mkdir and, when that  *)
(* fails, a test of exist_ok and of is_dir(); either is one step.  call    *)
(* holds the call of every process.                                        *)
(***************************************************************************)
Procs == {1, 2}

MaxCalls == 3

\* A variant without exist_ok.
WithoutExistOk == FALSE

\* mkdir(exist_ok=True)
ExistOk == TRUE

\* The stores an earlier run may have left: none, an empty one, one with an
\* entry.
InitStores ==
    { [dir |-> FALSE, files |-> << >>],
      [dir |-> TRUE, files |-> << >>],
      [dir |-> TRUE,
       files |-> save_to_cache(<< >>, TRUE, 0, ConcKey, SampleRecord).files] }

ProcsInit ==
    /\ \E store \in InitStores : cache_dir = store.dir /\ files = store.files
    /\ now = 0
    /\ GOOGLE_MAPS_API_KEY = NoCredential
    /\ call = [p \in Procs |-> [op |-> "init_cache", pc |-> "idle", calls |-> 0,
                                 found |-> FALSE, exists |-> FALSE, exc |-> "none"]]
    /\ stored_by = << >>
    /\ saver = Idle
    /\ getter = Idle

\* Process p calls init_cache(); found tells whether the directory is there
\* at that time.
CallInitCache(p) ==
    /\ call[p].pc \in {"idle", "done"}
    /\ call[p].exc = "none"
    /\ call[p].calls < MaxCalls
    /\ call' = [call EXCEPT ![p] = [op |-> "init_cache", pc |-> "mkdir",
                                    calls |-> call[p].calls + 1, found |-> cache_dir,
                                    exists |-> FALSE, exc |-> "none"]]
    /\ UNCHANGED <<cache_dir, files, now, GOOGLE_MAPS_API_KEY, stored_by, saver, getter>>

\* os.mkdir: the directory is made, or the call fails because it exists.
Mkdir(p) ==
    /\ call[p].pc = "mkdir"
    /\ IF cache_dir
         THEN /\ call' = [call EXCEPT ![p].pc = "is_dir", ![p].exists = TRUE]
              /\ UNCHANGED cache_dir
         ELSE /\ cache_dir' = TRUE
              /\ call' = [call EXCEPT ![p].pc = "done"]
    /\ UNCHANGED <<files, now, GOOGLE_MAPS_API_KEY, stored_by, saver, getter>>

\* if not exist_ok or not self.is_dir(): raise
IsDir(p) ==
    /\ call[p].pc = "is_dir"
    /\ call' = [call EXCEPT ![p].pc = "done",
                            ![p].exc = IF ~ExistOk \/ ~cache_dir
                                         THEN "FileExistsError" ELSE "none"]
    /\ UNCHANGED <<cache_dir, files, now, GOOGLE_MAPS_API_KEY, stored_by, saver, getter>>

ProcsNext ==
    \E p \in Procs : CallInitCache(p) \/ Mkdir(p) \/ IsDir(p)

SpecInit == ProcsInit /\ [][ProcsNext]_vars

(***************************************************************************)
(* The command lines and the input files of the model.                     *)
(***************************************************************************)
Address(letter, number) == <<"A", "v", " ", letter, " ", number>>

\* n addresses, no two alike.
ManyAddresses(n) ==
    [i \in 1..n |-> IF i <= Len(UpperCase) THEN Address(UpperCase[i], "1")
                    ELSE Address(UpperCase[i - Len(UpperCase)], "2")]

\* sys.argv[1:]: nothing, one address, two addresses, an address twice in
\* other letters and blanks, one address more than the provider takes.
ArgLists ==
    { <<>>,
      <<Address("A", "1")>>,
      <<Address("A", "1"), Address("B", "1")>>,
      <<Address("A", "1"), <<"a", "v", " ", " ", "a", " ", "1">>>>,
      ManyAddresses(MaxFileAddresses + 1) }

\* input.txt: absent, two addresses, the same among blanks, one address, an
\* address twice, a line that is no address, as many addresses as the
\* provider takes, one more.
InputFiles ==
    { NoInputFile,
      InputFile(<<Address("A", "1"), Address("B", "1")>>),
      InputFile(<< <<" ">> \o Address("A", "1") \o <<" ", "\t">>, <<>>, <<" ">>,
                   Address("B", "1") >>),
      InputFile(<<Address("A", "1")>>),
      InputFile(<<Address("A", "1"), <<"A", "V", " ", "a", " ", " ", "1">>>>),
      InputFile(<<Address("A", "1"), <<"A", " ", "1">>>>),
      InputFile(ManyAddresses(MaxFileAddresses)),
      InputFile(ManyAddresses(MaxFileAddresses + 1)) }

\* read_addresses_from_file, tabulated for the files of the model.
ReadOf == [input \in InputFiles |-> read_addresses_from_file(input)] @@ << >>

ReadInput(input) ==
    IF input \in DOMAIN ReadOf THEN ReadOf[input] ELSE read_addresses_from_file(input)

(***************************************************************************)
(* main.py                                                                 *)
(***************************************************************************)
\* A variant that subtracts the other way round.
MinusSwapped(a, b) == b - a

\* original - optimized, lines 91 and 92
Minus(a, b) == a - b

NoValue == [kind |-> "none"]

NoSavings == [exc |-> "none", lines |-> <<>>]

ZeroDivisionError == [kind |-> "float division by zero"]

\* part / whole * 100, lines 94 and 96; whole is not zero.
Percent(part, whole) == FloatMul(FloatDiv(part, whole), FloatOf(100))

\* Line 94
Line94(distance_saved, original_km) ==
    "Distance Saved:      " \o FormatFixed(distance_saved, 2) \o " km ("
    \o FormatFixed(Percent(distance_saved, original_km), 1) \o "%)"

\* Line 95
Line95(time_saved) ==
    "Time Saved:          " \o format_duration(Abs(time_saved)) \o " ("
    \o (IF time_saved > 0 THEN "saved" ELSE "added") \o ")"

\* Line 96
Line96(fuel_savings, original_fuel_cost) ==
    "Fuel Cost Saved:     €" \o FormatFixed(fuel_savings, 2) \o " ("
    \o FormatFixed(Percent(fuel_savings, original_fuel_cost), 1) \o "%)"

\* Lines 93-96 for the figures of lines 54-56, 91 and 92.  An f-string is
\* built before it is printed: when a division in it raises, its line is not
\* printed.
SavingsBlock(distance_saved, time_saved, fuel_savings, original_km, original_fuel_cost) ==
    IF IsZero(original_km)
      THEN [exc |-> "ZeroDivisionError", distance_saved |-> distance_saved,
            time_saved |-> time_saved, fuel_savings |-> fuel_savings,
            distance_percent |-> NoValue, fuel_percent |-> NoValue,
            lines |-> <<>>]
    ELSE IF IsZero(original_fuel_cost)
      THEN [exc |-> "ZeroDivisionError", distance_saved |-> distance_saved,
            time_saved |-> time_saved, fuel_savings |-> fuel_savings,
            distance_percent |-> Percent(distance_saved, original_km),
            fuel_percent |-> NoValue,
            lines |-> <<Line94(distance_saved, original_km), Line95(time_saved)>>]
    ELSE [exc |-> "none", distance_saved |-> distance_saved,
          time_saved |-> time_saved, fuel_savings |-> fuel_savings,
          distance_percent |-> Percent(distance_saved, original_km),
          fuel_percent |-> Percent(fuel_savings, original_fuel_cost),
          lines |-> <<Line94(distance_saved, original_km), Line95(time_saved),
                      Line96(fuel_savings, original_fuel_cost)>>]

\* Lines 54-56 and 91-96, for an original route of a_m meters and a_s
\* seconds and an optimized one of b_m and b_s: the figures of the savings
\* block and the lines it prints.
Savings(a_m, a_s, b_m, b_s) ==
    SavingsBlock(FloatOfRatio(Minus(a_m, b_m), 1000), Minus(a_s, b_s),
                 FloatSub(calculate_fuel_cost(a_m), calculate_fuel_cost(b_m)),
                 FloatOfRatio(a_m, 1000), calculate_fuel_cost(a_m))

\* The legs the provider answers a run of main with, and the totals of the
\* routes made of them.
MainLegs == {Leg(15000, 5400), Leg(12000, 4500), Leg(0, 0)}

RouteTotals ==
    { [distance_m |-> n * leg.distance, duration_s |-> n * leg.duration] :
        n \in {1, MaxFileAddresses - 1, MaxFileAddresses}, leg \in MainLegs }

\* Savings, tabulated for the routes of the model.
SavingsOf ==
    [pair \in RouteTotals \X RouteTotals |->
        Savings(pair[1].distance_m, pair[1].duration_s,
                pair[2].distance_m, pair[2].duration_s)] @@ << >>

\* What a run of main leaves behind: the exit status, the exception that
\* ended it and its error, whether optimize_route was called and with which
\* addresses, the routes it returned and the savings block.
MainOutcome(exit, exc, error, handed, addresses, fs, routes, savings) ==
    [exit |-> exit, exc |-> exc, error |-> error, handed |-> handed,
     addresses |-> addresses, files |-> fs, routes |-> routes, savings |-> savings]

\* main() after init_cache(), with sys.argv[1:] = argv.  Lines 58-84 print the
\* two routes and lines 99-109 the link to the optimized one: they change
\* nothing and raise nothing.
\* Lines 25-41: the addresses of the command line, or those of the file.
ReadAddresses(argv, input) ==
    IF Len(argv) > 0 THEN ReadOutcome("none", argv, NoError) ELSE ReadInput(input)

\* The totals of a route, as lines 54-56 and 91-96 read them.
Totals(route) ==
    [distance_m |-> GetItem(route, "distance_m").n,
     duration_s |-> GetItem(route, "duration_s").n]

\* Lines 54-113, once optimize_route has returned out for the addresses and
\* the savings block has come to savings.
AfterSavings(addresses, out, savings) ==
    IF savings.exc # "none"
      THEN MainOutcome(1, savings.exc, ZeroDivisionError, TRUE, addresses, out.files,
                       out.ret, savings)
      ELSE MainOutcome(0, "none", NoError, TRUE, addresses, out.files, out.ret, savings)

\* Lines 51-113, once optimize_route has ended with out.
AfterOptimize(addresses, out) ==
    IF out.exc # "none"
      THEN MainOutcome(1, out.exc, out.error, TRUE, addresses, out.files, PyNone,
                       NoSavings)
      ELSE AfterSavings(addresses, out,
                        SavingsOf[<<Totals(out.ret[1]), Totals(out.ret[2])>>])

\* Lines 25-113, once the addresses have been read.
AfterRead(fs, dir, t, credential, read, data1, data2) ==
    IF read.exc # "none"
      THEN MainOutcome(1, read.exc, read.error, FALSE, <<>>, fs, PyNone, NoSavings)
      ELSE AfterOptimize(read.ret,
                         optimize_route(fs, dir, t, credential,
                                        [i \in 1..Len(read.ret) |-> Text(read.ret[i])],
                                        data1, data2))

main(fs, dir, t, credential, argv, input, data1, data2) ==
    AfterRead(fs, dir, t, credential, ReadAddresses(argv, input), data1, data2)

(***************************************************************************)
(* Runs of the program: SpecMain.                                          *)
(***************************************************************************)
\* A run starts with fewer than MaxCached entries in the cache.
MaxCached == 2

MainInit ==
    /\ cache_dir = FALSE
    /\ files = << >>
    /\ now = 0
    /\ GOOGLE_MAPS_API_KEY \in {NoCredential, "K1"}
    /\ call = Idle
    /\ stored_by = << >>
    /\ saver = Idle
    /\ getter = Idle

\* What the provider may answer to a request for a route over the waypoints:
\* a route with a leg to each of them, in the order given, or no route.
MainResponses(waypoints, optimize) ==
    { Response("OK", [i \in 1..Len(waypoints) |-> leg], optimize,
               IF optimize THEN [i \in 1..Len(waypoints) |-> i - 1] ELSE <<>>,
               FALSE, <<>>, FALSE, "") : leg \in MainLegs }
    \cup { Response("ZERO_RESULTS", <<>>, FALSE, <<>>, FALSE, <<>>, FALSE, "") }

\* The addresses a run hands to optimize_route, none when it does not call it.
HandedOf(read) ==
    IF read.exc = "none" THEN [i \in 1..Len(read.ret) |-> Text(read.ret[i])] ELSE <<>>

Handed(argv, input) == HandedOf(ReadAddresses(argv, input))

\* The answers the provider may give to a fetch of the run that starts with
\* the cache files fs.
MainAnswers(fs, addresses, optimize) ==
    IF /\ Configured(GOOGLE_MAPS_API_KEY)
       /\ Len(addresses) >= MinAddresses
       /\ AsksProvider(fs, TRUE, now, addresses[1], Tail(addresses), optimize)
      THEN MainResponses(Tail(addresses), optimize)
      ELSE {NoResponse}

\* The cache files after the first fetch of the run.
AfterFirst(addresses, data1) ==
    IF Configured(GOOGLE_MAPS_API_KEY) /\ Len(addresses) >= MinAddresses
      THEN get_route_with_waypoints(files, TRUE, now, addresses[1],
                                    Tail(addresses), FALSE, data1).files
      ELSE files

\* One run of the program: init_cache(), line 17, then the rest of main.
Main(argv, input, data1, data2) ==
    /\ Cardinality(DOMAIN files) < MaxCached
    /\ \E out \in {main(files, init_cache(cache_dir), now, GOOGLE_MAPS_API_KEY,
                        argv, input, data1, data2)} :
          /\ cache_dir' = init_cache(cache_dir)
          /\ files' = out.files
          /\ call' = [op |-> "main", argv |-> argv, input |-> input,
                      credential |-> GOOGLE_MAPS_API_KEY, pre_files |-> files,
                      exit |-> out.exit, exc |-> out.exc, error |-> out.error,
                      handed |-> out.handed, addresses |-> out.addresses,
                      routes |-> out.routes, savings |-> out.savings,
                      post_files |-> out.files]
    /\ UNCHANGED <<now, GOOGLE_MAPS_API_KEY, stored_by, saver, getter>>

MainNext ==
    \E argv \in ArgLists :
       \E input \in IF Len(argv) > 0 THEN {NoInputFile} ELSE InputFiles :
          \E handed \in {Handed(argv, input)} :
             \E data1 \in MainAnswers(files, handed, FALSE) :
                \E data2 \in MainAnswers(AfterFirst(handed, data1), handed, TRUE) :
                   Main(argv, input, data1, data2)

SpecMain == MainInit /\ [][MainNext]_vars

(***************************************************************************)
(* get_route_with_waypoints called with two and with three stops, the      *)
(* response kept with the call: SpecFetch.                                  *)
(***************************************************************************)
\* The stops after the origin.
FetchStops == { <<"d">>, <<"a", "d">> }

\* The legs of a route over n waypoints: 5000 m in 600 s, then 7000 m in
\* 300 s.
FetchLegs(n) == SubSeq(<<Leg(5000, 600), Leg(7000, 300)>>, 1, n)

\* The geocoded_waypoints of a response that reports a failure: as many
\* entries as stops or more, one of them without a status, or none.
GeocodedLists ==
    { <<"OK", "ZERO_RESULTS">>,
      <<"ZERO_RESULTS", NoGeocoderStatus>>,
      <<"OK", "OK", "OK", "NOT_FOUND">>,
      <<"ZERO_RESULTS", "OK", NoGeocoderStatus, "ZERO_RESULTS">>,
      <<>> }

FetchResponses(waypoints) ==
    { Response("OK", FetchLegs(Len(waypoints)), FALSE, <<>>, FALSE, <<>>, FALSE, "") }
    \cup { Response("OK", FetchLegs(Len(waypoints)), TRUE, order, FALSE, <<>>, FALSE, "") :
             order \in { [i \in 1..Len(waypoints) |-> i - 1],
                         [i \in 1..Len(waypoints) |-> Len(waypoints) - i] } }
    \cup { Response("NOT_FOUND", <<>>, FALSE, <<>>, TRUE, geocoded, FALSE, "") :
             geocoded \in GeocodedLists }
    \cup { Response("ZERO_RESULTS", <<>>, FALSE, <<>>, FALSE, <<>>, FALSE, ""),
           Response("REQUEST_DENIED", <<>>, FALSE, <<>>, FALSE, <<>>,
                    TRUE, "The provided API key is invalid.") }

FetchInit == Init /\ GOOGLE_MAPS_API_KEY = "K1"

FetchAnswers(origin, waypoints, optimize) ==
    IF AsksProvider(files, cache_dir, now, origin, waypoints, optimize)
      THEN FetchResponses(waypoints)
      ELSE {NoResponse}

\* The call before this one asked the provider for the same route and raised
\* the provider's error.
Retried(origin, waypoints, optimize) ==
    /\ call.op = "get_route_with_waypoints"
    /\ call.origin = origin /\ call.waypoints = waypoints /\ call.optimize = optimize
    /\ call.requests = 1
    /\ call.exc = "ValueError"

FetchRoute(origin, waypoints, optimize, data) ==
    \E out \in {get_route_with_waypoints(files, cache_dir, now,
                                         origin, waypoints, optimize, data)} :
        /\ files' = out.files
        /\ call' = [op |-> "get_route_with_waypoints",
                    origin |-> origin, waypoints |-> waypoints, optimize |-> optimize,
                    key |-> CacheKey(origin, waypoints, optimize), at |-> now,
                    dir |-> cache_dir, pre_files |-> files,
                    data |-> IF out.requests = 1 THEN data ELSE NoResponse,
                    exc |-> out.exc, ret |-> out.ret, requests |-> out.requests,
                    error |-> out.error, post_files |-> out.files,
                    retried |-> Retried(origin, waypoints, optimize)]
        /\ UNCHANGED <<cache_dir, now, GOOGLE_MAPS_API_KEY, stored_by, saver, getter>>

FetchNext ==
    \/ InitCache
    \/ \E d \in Elapsed : Tick(d)
    \/ \E waypoints \in FetchStops, optimize \in BOOLEAN :
         \E data \in FetchAnswers("o", waypoints, optimize) :
            FetchRoute("o", waypoints, optimize, data)

SpecFetch == FetchInit /\ [][FetchNext]_vars

(***************************************************************************)
(* Properties.  A property of a call is stated on the variable call, which *)
(* holds the arguments of the last call, the cache file before and after   *)
(* it, and its outcome.                                                    *)
(***************************************************************************)
HasMember(doc, name) ==
    doc.json = "object" /\ \E i \in 1..Len(doc.members) : doc.members[i][1] = name

Member(doc, name) ==
    doc.members[CHOOSE i \in 1..Len(doc.members) : doc.members[i][1] = name][2]

\* The file holds an object with a timestamp that is an ISO date.
WellStamped(doc) ==
    /\ HasMember(doc, "timestamp")
    /\ Member(doc, "timestamp").json = "string"
    /\ IsIsoformat(Member(doc, "timestamp").s)

EntryTime(doc) == fromisoformat(Member(doc, "timestamp").s)

\* The file holds an entry: a timestamp and a record.
WellFormed(doc) ==
    WellStamped(doc) /\ HasMember(doc, "data") /\ Member(doc, "data").json = "object"

IsFetch == call.op = "get_route_with_waypoints"

IsGet == call.op = "get_from_cache"

\* The number of components in which two requests differ: origin, destination
\* (the last waypoint), waypoint sequence, optimize flag.
Differences(q1, q2) ==
    (IF q1.origin # q2.origin THEN 1 ELSE 0)
    + (IF q1.waypoints[Len(q1.waypoints)] # q2.waypoints[Len(q2.waypoints)] THEN 1 ELSE 0)
    + (IF q1.waypoints # q2.waypoints THEN 1 ELSE 0)
    + (IF q1.optimize # q2.optimize THEN 1 ELSE 0)

SameRequest(q1, q2) ==
    q1.origin = q2.origin /\ q1.waypoints = q2.waypoints /\ q1.optimize = q2.optimize

\* order is a permutation of 0..n-1.
IsPermutation(order, n) ==
    Len(order) = n /\ \A j \in 0..(n - 1) : \E i \in 1..n : order[i] = j

\* C1: after a successful get_route_with_waypoints, a later call with the
\* same origin, waypoints and optimize flag, made while the file the first
\* call wrote is unaltered and not older than CACHE_EXPIRY_DAYS, sends no
\* request to the provider and returns the record the first call returned.
C1_RepeatServedFromCache ==
    ( /\ IsFetch
      /\ call.pre_by # NoFetch
      /\ SameRequest(call, call.pre_by)
      /\ call.at <= EntryTime(call.pre) + CACHE_EXPIRY_DAYS )
    => (call.requests = 0 /\ call.exc = "none" /\ call.ret = call.pre_by.ret)

\* C1 happens: a repeat call when the entry is exactly CACHE_EXPIRY_DAYS old.
C1_RepeatAtTTL ==
    /\ IsFetch
    /\ call.pre_by # NoFetch
    /\ SameRequest(call, call.pre_by)
    /\ call.at = EntryTime(call.pre) + CACHE_EXPIRY_DAYS
    /\ call.requests = 0
    /\ call.ret = call.pre_by.ret

\* C2: two requests that differ in exactly one of origin, destination,
\* waypoint sequence and optimize flag have different cache keys: a call is
\* never served the record that such a request stored.
C2_KeySensitivity ==
    ( /\ IsFetch
      /\ call.pre_by # NoFetch
      /\ Differences(call, call.pre_by) = 1 )
    => ( /\ CacheKey(call.pre_by.origin, call.pre_by.waypoints, call.pre_by.optimize)
              # call.key
         /\ ~(call.requests = 0 /\ call.exc = "none" /\ call.ret = call.pre_by.ret) )

\* C3: generate_cache_key gives one key to all parameter maps that hold the
\* same field/value pairs, whatever the order of insertion.
C3_KeyIgnoresInsertionOrder ==
    call.op = "generate_cache_key"
    => \A p2 \in ParamMaps :
          DictEq(call.params, p2) => generate_cache_key(p2) = call.key

\* C3 happens: the key of a map whose fields were not inserted in sorted
\* order, equal to the key of another ordering of it.
C3_TwoOrderings ==
    /\ call.op = "generate_cache_key"
    /\ call.params.pairs # SortKeys(call.params)
    /\ \E p2 \in ParamMaps :
          /\ p2 # call.params
          /\ DictEq(call.params, p2)
          /\ generate_cache_key(p2) = call.key

\* C4: get_from_cache(k) right after save_to_cache(k, r) returns r, whatever
\* was stored at k before the save: nothing, an entry, an expired entry, a
\* damaged file.
C4_RoundTrip ==
    (IsGet /\ call.after_save # NoSave)
    => (call.exc = "none" /\ call.ret = call.after_save.data)

\* C4 happens: a save over a damaged file, then the get.
C4_RoundTripOverCorrupt ==
    /\ IsGet
    /\ call.after_save # NoSave
    /\ call.after_save.over # NoFile
    /\ ~WellFormed(call.after_save.over)
    /\ call.ret = call.after_save.data

\* C5: get_from_cache on an entry whose timestamp is more than
\* CACHE_EXPIRY_DAYS in the past returns None and removes the file.
C5_ExpiredRemoved ==
    ( /\ IsGet
      /\ WellStamped(call.pre)
      /\ call.at > EntryTime(call.pre) + CACHE_EXPIRY_DAYS )
    => (call.exc = "none" /\ call.ret = PyNone /\ call.post = NoFile)

\* C5 happens: a get of an entry that is CACHE_EXPIRY_DAYS + 1 old.
C5_ExpiredByOneDay ==
    /\ IsGet
    /\ WellFormed(call.pre)
    /\ call.at = EntryTime(call.pre) + CACHE_EXPIRY_DAYS + 1
    /\ call.ret = PyNone
    /\ call.post = NoFile

\* C6: get_from_cache on a file that holds no well-formed entry (no JSON, no
\* object, timestamp missing or no string or no date, data missing or no
\* record) does not raise, returns None and removes the file.
C6_CorruptionFallback ==
    (IsGet /\ call.pre # NoFile /\ ~WellFormed(call.pre))
    => (call.exc = "none" /\ call.ret = PyNone /\ call.post = NoFile)

\* C7: save_to_cache replaces the entry atomically: a get_from_cache running
\* beside it never reads the file while it is being written, and once both
\* have finished the file holds the entry that was saved.
C7_AtomicReplace ==
    /\ getter.op = "get_from_cache" => ~getter.torn
    /\ ( /\ saver.op = "save_to_cache" /\ saver.pc = "done"
         /\ getter.op = "get_from_cache" /\ getter.pc = "done" )
       => Content(files, saver.key) = saver.entry

\* C8: a record that a fetch with optimize builds from the provider's
\* response and that carries a waypoint order has an order that is a
\* permutation of 0..len(waypoints)-1, and its addresses after the origin
\* are the waypoints rearranged by that order.
C8_PermutationInvariant ==
    ( /\ IsFetch
      /\ call.optimize
      /\ call.requests = 1
      /\ call.exc = "none"
      /\ GetItem(call.ret, "waypoint_order") # PyNone )
    => LET items == GetItem(call.ret, "waypoint_order").items
           order == [i \in 1..Len(items) |-> items[i].n]
           addresses == GetItem(call.ret, "addresses").items
           n == Len(call.waypoints)
       IN  /\ IsPermutation(order, n)
           /\ Len(addresses) = n + 1
           /\ \A i \in 1..n : addresses[i + 1] = PyStr(call.waypoints[order[i] + 1])

\* C9: when the status of the provider's response is not "OK",
\* get_route_with_waypoints raises an error that carries the status and
\* returns no record.
C9_ProviderErrorRaised ==
    (IsFetch /\ call.requests = 1 /\ call.status # "OK")
    => ( /\ call.exc = "ValueError"
         /\ call.error.kind = "provider"
         /\ call.error.status = call.status
         /\ call.ret = PyNone )

\* C9 happens: the provider answers NOT_FOUND.
C9_NotFoundRaised ==
    /\ IsFetch
    /\ call.requests = 1
    /\ call.status = "NOT_FOUND"
    /\ call.exc = "ValueError"
    /\ call.error.status = "NOT_FOUND"

\* C10: get_route_with_waypoints called while no credential is configured
\* fails with a configuration error, whatever the cache holds: it returns no
\* record and sends no request.
C10_CredentialRequired ==
    (IsFetch /\ ~Configured(call.credential))
    => ( /\ call.exc = "ValueError"
         /\ call.error = ConfigurationError
         /\ call.requests = 0
         /\ call.ret = PyNone )

IsOptimize == call.op = "optimize_route"

\* C11: optimize_route called with fewer than 2 addresses or with no
\* credential raises before it looks anything up in the cache, writes to it or
\* asks the provider: the cache files are as they were.
C11_RejectedBeforeAnyFetch ==
    ( /\ IsOptimize
      /\ (Len(call.addresses) < 2 \/ call.credential \in {NoCredential, ""}) )
    => ( /\ call.exc = "ValueError"
         /\ call.fetches = <<>>
         /\ call.post_files = call.pre_files )

\* C11 happens: no credential, and a cache file that a lookup would remove.
C11_RejectedWithStaleCache ==
    /\ IsOptimize
    /\ call.credential = NoCredential
    /\ Len(call.addresses) >= 2
    /\ \E k \in DOMAIN call.pre_files :
          get_from_cache(call.pre_files, TRUE, call.at, k).files # call.pre_files
    /\ call.exc = "ValueError"
    /\ call.post_files = call.pre_files

\* C12: optimize_route makes its fetches one after the other with the first
\* address as origin and the rest as waypoints: first the fetch with
\* optimize=False; the fetch with optimize=True starts from what the first left
\* when it returned, and is not made when the first raised.
C12_FetchesInSequence ==
    (IsOptimize /\ call.fetches # <<>>)
    => LET first == call.fetches[1]
       IN  /\ first.optimize = FALSE
           /\ first.origin = call.addresses[1]
           /\ first.waypoints = Tail(call.addresses)
           /\ first.pre_files = call.pre_files
           /\ IF first.exc # "none"
                THEN Len(call.fetches) = 1 /\ call.exc = first.exc
                     /\ call.post_files = first.post_files
                ELSE /\ Len(call.fetches) = 2
                     /\ call.fetches[2].optimize = TRUE
                     /\ call.fetches[2].origin = call.addresses[1]
                     /\ call.fetches[2].waypoints = Tail(call.addresses)
                     /\ call.fetches[2].pre_files = first.post_files
                     /\ call.post_files = call.fetches[2].post_files

\* C12 happens: the first fetch asks the provider and raises.
C12_FirstFetchRaised ==
    /\ IsOptimize
    /\ Len(call.fetches) = 1
    /\ call.fetches[1].requests = 1
    /\ call.fetches[1].exc = "ValueError"
    /\ call.exc = "ValueError"

\* Two digits at least: a number below ten is written with a zero before it.
TwoDigits(n) == IF n < 10 THEN "0" \o ToString(n) ELSE ToString(n)

\* C16: for s >= 0 seconds, format_duration(s) is hours = s div 3600 and
\* minutes = (s mod 3600) div 60, each written with two digits at least and
\* a colon between; the minutes are in 0..59, the seconds are dropped and the
\* hours may pass 23 (5400 gives "01:30", 90000 gives "25:00").
C16_FormatDuration ==
    call.op = "format_duration"
    => \E h \in 0..(call.seconds \div 3600), m \in 0..59 :
          /\ h * 3600 + m * 60 <= call.seconds
          /\ call.seconds < h * 3600 + m * 60 + 60
          /\ call.ret = TwoDigits(h) \o ":" \o TwoDigits(m)
          /\ Len(call.ret) >= 5
          /\ (call.seconds = 5400 => call.ret = "01:30")
          /\ (call.seconds = 90000 => call.ret = "25:00")

\* C16 happens: more than a day.
C16_MoreThanADay ==
    /\ call.op = "format_duration"
    /\ call.seconds = 90000
    /\ call.ret = "25:00"

\* The float next above x > 0, when its mantissa is not the largest.
FloatAfter(x) == [x EXCEPT !.mant = AddNat(x.mant, <<1>>)]

\* The cost of every sample distance.
FuelCosts == [d \in DistanceSamples |-> calculate_fuel_cost(d)] @@ << >>

\* C17 as stated: calculate_fuel_cost(d) is (d/1000/100) * 8.5 * 1.50 for
\* d >= 0 meters: 0 at d = 0, more for a longer distance, and 1.275 at
\* d = 10000.
C17_FuelCostIs1275 ==
    call.op = "calculate_fuel_cost"
    => /\ call.ret = FloatMul(FloatMul(FloatDiv(FloatOfRatio(call.distance_m, 1000),
                                                FloatOf(100)),
                                       FloatOfRatio(85, 10)),
                              FloatOfRatio(150, 100))
       /\ (call.distance_m = 0 => call.ret = FloatZero)
       /\ \A d \in DistanceSamples :
             d < call.distance_m => FloatLess(FuelCosts[d], call.ret)
       /\ (call.distance_m = 10000 => call.ret = FloatOfRatio(1275, 1000))

\* C17, amended: calculate_fuel_cost(d) is (d/1000/100) * 8.5 * 1.50 in float
\* arithmetic for d >= 0 meters: 0 at d = 0, more for a longer distance, and
\* at d = 10000 the float next above 1.275 (1.2750000000000001).
C17_FuelCost ==
    call.op = "calculate_fuel_cost"
    => /\ call.ret = FloatMul(FloatMul(FloatDiv(FloatOfRatio(call.distance_m, 1000),
                                                FloatOf(100)),
                                       FloatOfRatio(85, 10)),
                              FloatOfRatio(150, 100))
       /\ (call.distance_m = 0 => call.ret = FloatZero)
       /\ \A d \in DistanceSamples :
             d < call.distance_m => FloatLess(FuelCosts[d], call.ret)
       /\ (call.distance_m = 10000
             => call.ret = FloatAfter(FloatOfRatio(1275, 1000)))

\* C17 happens: the cost of 10 km.
C17_TenKilometres ==
    /\ call.op = "calculate_fuel_cost"
    /\ call.distance_m = 10000
    /\ FloatLess(FloatOfRatio(1275, 1000), call.ret)
    /\ FloatLess(call.ret, FloatOfRatio(1275001, 1000000))

\* C20: a fetch for a key whose file holds an expired entry, or no entry
\* that can be read, goes as a miss does: no error of the cache comes out of
\* it, the provider is asked once, and when it returns a record the file
\* holds that record, stamped with the time of the call.
C20_StaleEntryIsAMiss ==
    ( /\ IsFetch
      /\ call.pre # NoFile
      /\ \/ ~WellFormed(call.pre)
         \/ call.at > EntryTime(call.pre) + CACHE_EXPIRY_DAYS )
    => ( /\ call.requests = 1
         /\ call.exc = "none"
              => /\ call.ret # PyNone
                 /\ call.post = json_dump(CacheEntry(call.at, call.ret)) )

\* C18: the cache key of a request does not depend on the credential: a
\* fetch made under one configured credential, while the store holds the
\* unaltered, unexpired file that a fetch of the same request wrote under
\* another configured credential, has the key of that file, sends no request
\* and returns the record of that fetch.
C18_KeyIgnoresCredential ==
    [][ \A k \in DOMAIN stored_by :
          ( /\ IsFetch'
            /\ SameRequest(call', stored_by[k])
            /\ Configured(stored_by[k].credential)
            /\ Configured(call'.credential)
            /\ stored_by[k].credential # call'.credential
            /\ call'.at = now
            /\ now <= EntryTime(files[k]) + CACHE_EXPIRY_DAYS )
          => ( /\ call'.key = k
               /\ call'.requests = 0
               /\ call'.exc = "none"
               /\ call'.ret = stored_by[k].ret ) ]_vars

\* C18 happens: a record cached under one credential is served under another.
C18_ServedUnderAnotherCredential ==
    /\ IsFetch
    /\ call.pre_by # NoFetch
    /\ SameRequest(call, call.pre_by)
    /\ Configured(call.pre_by.credential)
    /\ Configured(call.credential)
    /\ call.pre_by.credential # call.credential
    /\ call.requests = 0
    /\ call.ret = call.pre_by.ret

\* C19: init_cache is idempotent: however many calls are made, one after
\* another or interleaved in several processes, no call raises, and every
\* step leaves the directory in place once it is there and the entries as
\* they were; when a call is done the directory is there.
C19_InitCacheIdempotent ==
    [][ /\ files' = files
        /\ cache_dir => cache_dir'
        /\ \A p \in Procs :
              /\ call'[p].exc = "none"
              /\ call'[p].pc = "done" => cache_dir' ]_vars

\* C19 happens: a process called init_cache when there was no directory,
\* another process made the directory first, and the call returned; the other
\* process has called again since.
C19_LostRace ==
    /\ cache_dir
    /\ \E p, q \in Procs :
          /\ call[p].pc = "done"
          /\ ~call[p].found
          /\ call[p].exists
          /\ call[p].exc = "none"
          /\ call[q].pc = "done"
          /\ call[q].calls > 1

IsMain == call.op = "main"

\* C13: every list of stops that main hands to optimize_route, from the
\* command line or from the input file, has 2 to 26 entries, no two of them
\* equal once put in lower case with every run of blanks made one.
C13_StopListValid ==
    (IsMain /\ call.handed)
    => /\ Len(call.addresses) >= 2
       /\ Len(call.addresses) <= 26
       /\ \A i, j \in 1..Len(call.addresses) :
             i # j => Normalized(call.addresses[i]) # Normalized(call.addresses[j])

\* The run reached the savings block: optimize_route returned two routes.
ReachedSavings == IsMain /\ call.savings # NoSavings

Original ==
    [distance_m |-> GetItem(call.routes[1], "distance_m").n,
     duration_s |-> GetItem(call.routes[1], "duration_s").n]

Optimized ==
    [distance_m |-> GetItem(call.routes[2], "distance_m").n,
     duration_s |-> GetItem(call.routes[2], "duration_s").n]

\* C14: when the original route's metric is zero, the percentage of the
\* savings block is guarded: the run reports 0% or an error of its own for
\* the case, and divides by zero nowhere.
C14_ZeroBaselineGuarded ==
    (ReachedSavings /\ Original.distance_m = 0)
    => /\ call.exc # "ZeroDivisionError"
       /\ \/ call.exit = 0 /\ call.savings.distance_percent = FloatZero
          \/ call.exit = 1 /\ call.error # ZeroDivisionError

Positive(x) == ~IsZero(x) /\ x.sign = 1

\* C15: for an original route a and an optimized route b, the distance, the
\* time and the fuel cost saved are a's figure less b's (the distance in km),
\* each positive exactly when b's figure is the smaller, and where a's figure
\* is not zero the percentage is saved / a's figure * 100; 15000 m against
\* 12000 m is 3 km (3000 m) saved and 20.0 %.
C15_Savings ==
    ReachedSavings
    => /\ call.savings.distance_saved
            = FloatOfRatio(Original.distance_m - Optimized.distance_m, 1000)
       /\ call.savings.time_saved = Original.duration_s - Optimized.duration_s
       /\ call.savings.fuel_savings
            = FloatSub(calculate_fuel_cost(Original.distance_m),
                       calculate_fuel_cost(Optimized.distance_m))
       /\ Positive(call.savings.distance_saved)
            <=> Optimized.distance_m < Original.distance_m
       /\ call.savings.time_saved > 0 <=> Optimized.duration_s < Original.duration_s
       /\ Positive(call.savings.fuel_savings)
            <=> Optimized.distance_m < Original.distance_m
       /\ Original.distance_m # 0
            => /\ call.savings.distance_percent
                    = FloatMul(FloatDiv(call.savings.distance_saved,
                                        FloatOfRatio(Original.distance_m, 1000)),
                               FloatOf(100))
               /\ call.savings.fuel_percent
                    = FloatMul(FloatDiv(call.savings.fuel_savings,
                                        calculate_fuel_cost(Original.distance_m)),
                               FloatOf(100))
       /\ (Original.distance_m = 15000 /\ Optimized.distance_m = 12000)
            => /\ call.savings.distance_saved = FloatOfRatio(3000, 1000)
               /\ call.savings.distance_percent = FloatOf(20)
               /\ call.savings.lines[1] = "Distance Saved:      3.00 km (20.0%)"

\* C15 happens: 15000 m against 12000 m.
C15_ThreeKilometresSaved ==
    /\ ReachedSavings
    /\ call.exit = 0
    /\ Original.distance_m = 15000
    /\ Optimized.distance_m = 12000
    /\ call.savings.lines = <<"Distance Saved:      3.00 km (20.0%)",
                              "Time Saved:          00:15 (saved)",
                              "Fuel Cost Saved:     €0.38 (20.0%)">>

\* The addresses of a record, none when the value is no record.
AddressesOf(record) ==
    IF record.py = "dict" /\ HasKey(record, "addresses")
         /\ GetItem(record, "addresses").py = "list"
      THEN GetItem(record, "addresses").items
      ELSE <<>>

\* C21: every record that get_route_with_waypoints returns, built from the
\* provider's response (with a waypoint order or without) or served from the
\* cache, has the origin as its first address and as many addresses as the
\* input has stops, 1 + len(waypoints).
C21_AddressesMatchInput ==
    (IsFetch /\ call.exc = "none")
    => /\ Len(AddressesOf(call.ret)) = 1 + Len(call.waypoints)
       /\ AddressesOf(call.ret)[1] = PyStr(call.origin)

RECURSIVE LegTotal(_, _, _)
\* The value of field f of the first n legs, added up from the last.
LegTotal(legs, f, n) == IF n = 0 THEN 0 ELSE LegTotal(legs, f, n - 1) + legs[n][f]

\* The call asked the provider, which answered with a route, and returned.
BuiltFromResponse ==
    IsFetch /\ call.requests = 1 /\ call.data.status = "OK" /\ call.exc = "none"

\* C22: the record built from a success response has for distance the sum of
\* distance.value over all legs of the route and for duration the sum of
\* duration.value over them; one leg of 5000 m and 600 s for two stops gives
\* addresses [origin, destination], distance 5000, duration 600 and no
\* waypoint order.
C22_TotalsAreLegSums ==
    BuiltFromResponse
    => /\ GetItem(call.ret, "distance_m")
            = PyInt(LegTotal(call.data.legs, "distance", Len(call.data.legs)))
       /\ GetItem(call.ret, "duration_s")
            = PyInt(LegTotal(call.data.legs, "duration", Len(call.data.legs)))
       /\ ( /\ Len(call.waypoints) = 1
            /\ call.data.legs = <<Leg(5000, 600)>>
            /\ ~(call.optimize /\ call.data.has_waypoint_order) )
          => call.ret = PyDict(<< <<"addresses",
                                    PyList(<<PyStr(call.origin),
                                             PyStr(call.waypoints[1])>>)>>,
                                  <<"distance_m", PyInt(5000)>>,
                                  <<"duration_s", PyInt(600)>>,
                                  <<"waypoint_order", PyNone>> >>)

\* C22 happens: a route of two legs, 5000 m in 600 s and 7000 m in 300 s.
C22_TwoLegsSummed ==
    /\ BuiltFromResponse
    /\ Len(call.data.legs) = 2
    /\ GetItem(call.ret, "distance_m") = PyInt(12000)
    /\ GetItem(call.ret, "duration_s") = PyInt(900)

\* The call asked the provider, which answered with a status other than OK.
ProviderFailed == IsFetch /\ call.requests = 1 /\ call.data.status # "OK"

\* [origin] + waypoints of the call
AllAddresses == <<call.origin>> \o call.waypoints

\* The geocoded_waypoints of the response, none when it has no such field.
Geocoded ==
    IF call.data.has_geocoded_waypoints THEN call.data.geocoded_waypoints ELSE <<>>

\* C23: in the error raised for a provider failure, the addresses reported as
\* failed are the elements of [origin] + waypoints at the positions of the
\* geocoded_waypoints entries whose geocoder_status is not OK, an entry
\* without a status counting as failed, each once and in order; entries at
\* positions past the input list are left out and raise no IndexError.
C23_FailedAddressesByPosition ==
    ProviderFailed
    => /\ call.exc = "ValueError"
       /\ LET failed == call.error.failed_addresses
          IN  /\ \A j \in 1..Len(failed) :
                    /\ failed[j][1] \in 1..Len(AllAddresses)
                    /\ failed[j][1] <= Len(Geocoded)
                    /\ Geocoded[failed[j][1]] # "OK"
                    /\ failed[j][2] = AllAddresses[failed[j][1]]
                    /\ failed[j][3] = IF Geocoded[failed[j][1]] = NoGeocoderStatus
                                        THEN "UNKNOWN"
                                        ELSE Geocoded[failed[j][1]]
              /\ \A j \in 1..(Len(failed) - 1) : failed[j][1] < failed[j + 1][1]
              /\ \A i \in 1..Len(Geocoded) :
                    (i <= Len(AllAddresses) /\ Geocoded[i] # "OK")
                    => \E j \in 1..Len(failed) : failed[j][1] = i

\* C23 happens: three stops and four entries, the first and the last failed
\* and the third without a status.
C23_EntryPastTheStops ==
    /\ ProviderFailed
    /\ Len(Geocoded) > Len(AllAddresses)
    /\ Geocoded[3] = NoGeocoderStatus
    /\ Geocoded[4] # "OK"
    /\ call.exc = "ValueError"
    /\ call.error.failed_addresses
         = << <<1, "o", "ZERO_RESULTS">>, <<3, "d", "UNKNOWN">> >>

\* C24: a fetch that ends in a provider error writes nothing to the cache:
\* the files are those its own lookup left, with none for its key, and the
\* next fetch with the same parameters asks the provider again.
C24_FailureNotCached ==
    /\ ProviderFailed
       => /\ call.post_files
               = get_from_cache(call.pre_files, call.dir, call.at, call.key).files
          /\ call.key \notin DOMAIN call.post_files
    /\ (IsFetch /\ call.retried) => call.requests = 1

\* C24 happens: the fetch right after a failed one fails again, beside the
\* entries of other requests.
C24_FailedTwice ==
    /\ ProviderFailed
    /\ call.retried
    /\ call.exc = "ValueError"
    /\ DOMAIN call.post_files # {}
    /\ call.post_files = call.pre_files

\* The record an entry holds.
Payload(doc) == json_load(Member(doc, "data"))

\* C25: get_from_cache changes the cache files only by removing the file of
\* the key it looks up, and only when that file holds an expired entry or no
\* well-formed entry; a lookup of a key without a file, or of a well-formed
\* entry that is CACHE_EXPIRY_DAYS old or less, leaves every file as it was
\* (the second returns the record of the entry); the file of another key is
\* never touched.
C25_LookupFrame ==
    [][ call'.op = "get_from_cache"
        => /\ \A k \in DOMAIN files :
                 k # call'.key => k \in DOMAIN files' /\ files'[k] = files[k]
           /\ DOMAIN files' \subseteq DOMAIN files
           /\ files' # files
                => /\ call'.key \in DOMAIN files
                   /\ files' = [k \in DOMAIN files \ {call'.key} |-> files[k]]
                   /\ \/ ~WellFormed(files[call'.key])
                      \/ call'.at > EntryTime(files[call'.key]) + CACHE_EXPIRY_DAYS
           /\ call'.key \notin DOMAIN files => files' = files
           /\ ( /\ call'.key \in DOMAIN files
                /\ WellFormed(files[call'.key])
                /\ call'.at <= EntryTime(files[call'.key]) + CACHE_EXPIRY_DAYS )
              => /\ files' = files
                 /\ call'.exc = "none"
                 /\ call'.ret = Payload(files[call'.key]) ]_vars

\* C25 happens: a lookup of an entry that is exactly CACHE_EXPIRY_DAYS old,
\* beside the file of another key.
C25_LookupBesideAnotherEntry ==
    /\ IsGet
    /\ WellFormed(call.pre)
    /\ call.at = EntryTime(call.pre) + CACHE_EXPIRY_DAYS
    /\ call.ret = Payload(call.pre)
    /\ call.post = call.pre
    /\ \E k \in DOMAIN files : k # call.key

\* The keys of the two fetches optimize_route makes for its addresses.
OriginalKey == CacheKey(call.addresses[1], Tail(call.addresses), FALSE)

OptimizedKey == CacheKey(call.addresses[1], Tail(call.addresses), TRUE)

\* C26: the fetch without and the fetch with optimize that optimize_route
\* makes for a stop list have different cache keys: the second fetch is never
\* served the record the first has just stored (what it is served was in the
\* cache before the first fetch), and after optimize_route has returned the
\* cache holds an entry at each key, with the record returned for it.
C26_TwoEntries ==
    (IsOptimize /\ Len(call.fetches) = 2)
    => LET first == call.fetches[1]
           second == call.fetches[2]
       IN  /\ OriginalKey # OptimizedKey
           /\ (first.requests = 1 /\ second.requests = 0 /\ second.exc = "none")
                => /\ Content(first.post_files, OptimizedKey)
                        = Content(first.pre_files, OptimizedKey)
                   /\ second.ret = Payload(first.pre_files[OptimizedKey])
           /\ call.exc = "none"
                => /\ {OriginalKey, OptimizedKey} \subseteq DOMAIN call.post_files
                   /\ WellFormed(call.post_files[OriginalKey])
                   /\ WellFormed(call.post_files[OptimizedKey])
                   /\ Payload(call.post_files[OriginalKey]) = call.ret[1]
                   /\ Payload(call.post_files[OptimizedKey]) = call.ret[2]

\* C26 happens: the first fetch asks the provider and stores its record, the
\* second is served an entry that was in the cache before.
C26_SecondServedItsOwnEntry ==
    /\ IsOptimize
    /\ call.exc = "none"
    /\ call.fetches[1].requests = 1
    /\ call.fetches[2].requests = 0
    /\ OriginalKey # OptimizedKey
    /\ Cardinality(DOMAIN call.post_files) = 2
    /\ call.ret[2] = Payload(call.pre_files[OptimizedKey])

====
